---------------------------- MODULE Spec2Model ----------------------------
(***************************************************************************)
(* Model of the trajectory-to-graph pipeline of rtab/path_service:         *)
(* detect_stairs_first, separate_floors, assign_floors_to_stairs,          *)
(* remove_outliers, merge_overlapping_segments, deduplicate_path,          *)
(* snap_to_lines, build_path_graph and merge_floor_graphs, wired as in     *)
(* process_path_async.                                                     *)
(*                                                                         *)
(* Arithmetic.  Coordinates are fixed-point integers, one unit = 1 mm      *)
(* (Metre units per metre).  Comparisons of distances against thresholds   *)
(* are made on squared lengths and are exact.  Where the code adds up      *)
(* Euclidean lengths (path lengths, xy travel) the model adds lengths      *)
(* rounded down to the millimetre (Norm).  Points produced by linear       *)
(* interpolation are rounded down to the millimetre.  A point is the       *)
(* tuple <<x, y, z>>.  Sequences are 1-based; the code's 0-based indices   *)
(* (start_idx, end_idx, original_index) are kept as the code has them and  *)
(* point k of an array a is a[k + 1].                                      *)
(***************************************************************************)
EXTENDS Integers, Sequences, FiniteSets, TLC

VARIABLES
    pc,                  \* position of process_path_async / of the driver of a pure function
    node_table,          \* the rows of the Node table of the uploaded file, as stored
    raw_positions,       \* extract_trajectory_from_db's positions
    vertical_passages,   \* detect_stairs_first's passages (with floors once assigned)
    stair_mask,          \* detect_stairs_first's mask
    floors_data,         \* separate_floors' dict: floor number -> cluster
    deduplicated_floors, \* per floor level, the output of the deduplicator
    smoothed_floors,     \* per floor level, the output of snap_to_lines
    all_nodes,           \* merge_floor_graphs' nodes
    all_edges,           \* merge_floor_graphs' edges
    points_in,           \* input of a pure function under check
    out_once,            \* its result
    out_twice,           \* its result applied to out_once
    job_result,          \* job.result of process_path_async (<< >> for None)
    args_before,         \* the arguments of the stage calls of a step, as passed
    args_after,          \* the same objects when the calls have returned
    processing_jobs,     \* main.processing_jobs: job_id -> ProcessingJob
    job_locals           \* per running process_path_async task, its local variables

vars == <<pc, node_table, raw_positions, vertical_passages, stair_mask, floors_data,
          deduplicated_floors, smoothed_floors, all_nodes,
          all_edges, points_in, out_once, out_twice,
          job_result, args_before, args_after, processing_jobs, job_locals>>

-----------------------------------------------------------------------------
(* Units and program constants *)

Metre == 10 * 100

\* vertical_detector.py
Z_CHANGE_THRESHOLD == Metre \div 20
WINDOW_SIZE == 10
MIN_TOTAL_Z_CHANGE == (3 * Metre) \div 2
MIN_STAIR_POINTS == 5
DEFAULT_FLOOR_HEIGHT == 3 * Metre
MIN_POINTS_PER_FLOOR == 10
GAP_THRESHOLD == 10

-----------------------------------------------------------------------------
(* Arithmetic helpers *)

Abs(a) == IF a < 0 THEN -a ELSE a

Max2(a, b) == IF a >= b THEN a ELSE b

Min2(a, b) == IF a <= b THEN a ELSE b

RECURSIVE SqrtSearch(_, _, _)
SqrtSearch(n, lo, hi) ==
    IF lo >= hi THEN lo
    ELSE LET mid == (lo + hi + 1) \div 2
         IN  IF mid * mid <= n THEN SqrtSearch(n, mid, hi)
             ELSE SqrtSearch(n, lo, mid - 1)

\* floor of the square root
ISqrt(n) == SqrtSearch(n, 0, 46340)

\* squared Euclidean distance of two points (np.linalg.norm(a - b) ** 2)
Dist2(a, b) ==
    (a[1] - b[1]) * (a[1] - b[1]) + (a[2] - b[2]) * (a[2] - b[2])
        + (a[3] - b[3]) * (a[3] - b[3])

\* np.linalg.norm(a - b), rounded down to the millimetre
Norm(a, b) == ISqrt(Dist2(a, b))

\* planar length of a step: sqrt(sum(xy_diffs**2))
NormXY(a, b) ==
    ISqrt((a[1] - b[1]) * (a[1] - b[1]) + (a[2] - b[2]) * (a[2] - b[2]))

\* a[lo:hi] of the code, 0-based, hi exclusive
Slice(a, lo, hi) == IF hi <= lo THEN << >> ELSE SubSeq(a, lo + 1, hi)

RECURSIVE SumSeq(_)
SumSeq(s) == IF s = << >> THEN 0 ELSE Head(s) + SumSeq(Tail(s))

-----------------------------------------------------------------------------
(* vertical_detector.detect_stairs_first *)

Z(pos, k) == pos[k + 1][3]

\* z_diff[k] = z[k+1] - z[k]
ZDiff(pos, k) == Z(pos, k + 1) - Z(pos, k)

\* Step 1, the body of the loop for window i: whether the window is marked
WindowMarked(pos, i) ==
    LET window_z_change == Z(pos, i + WINDOW_SIZE) - Z(pos, i)
        ups == Cardinality({k \in i .. i + WINDOW_SIZE - 1 :
                              2 * ZDiff(pos, k) > Z_CHANGE_THRESHOLD})
        downs == Cardinality({k \in i .. i + WINDOW_SIZE - 1 :
                              2 * ZDiff(pos, k) < -Z_CHANGE_THRESHOLD})
    IN  /\ 20 * Abs(window_z_change) > MIN_TOTAL_Z_CHANGE * WINDOW_SIZE
        /\ IF window_z_change > 0 THEN 2 * ups > WINDOW_SIZE
                                  ELSE 2 * downs > WINDOW_SIZE

\* changing_z after Step 1 (entry k + 1 is changing_z[k])
ChangingZ(pos) ==
    LET n == Len(pos)
        marked == {i \in 0 .. n - WINDOW_SIZE - 1 : WindowMarked(pos, i)}
    IN  [k1 \in 1 .. n |->
            \E i \in marked : i <= k1 - 1 /\ k1 - 1 <= i + WINDOW_SIZE]

\* total_xy_dist of positions[start_idx:end_idx]
RECURSIVE XYLength(_, _, _)
XYLength(pos, start_idx, end_idx) ==
    IF end_idx - start_idx < 2 THEN 0
    ELSE NormXY(pos[start_idx + 1], pos[start_idx + 2])
            + XYLength(pos, start_idx + 1, end_idx)

\* xy_z_ratio < ELEVATOR_XY_Z_RATIO (1.0), with the ratio inf when z_disp = 0
PassageType(total_xy_dist, z_disp) ==
    IF z_disp > 0 /\ total_xy_dist < z_disp THEN "ELEVATOR" ELSE "STAIRCASE"

\* the dict appended for the run [start_idx, end_idx)
StairSegment(pos, start_idx, end_idx) ==
    LET z_start == Z(pos, start_idx)
        z_end == Z(pos, end_idx - 1)
        z_disp == Abs(z_end - z_start)
    IN  [type |-> PassageType(XYLength(pos, start_idx, end_idx), z_disp),
         start_idx |-> start_idx,
         end_idx |-> end_idx,
         z_start |-> z_start,
         z_end |-> z_end,
         z_displacement |-> z_disp,
         direction |-> IF z_end > z_start THEN "UP" ELSE "DOWN"]

\* the condition under which a run becomes a segment
SegmentAccepted(pos, start_idx, end_idx) ==
    /\ Abs(Z(pos, end_idx - 1) - Z(pos, start_idx)) >= MIN_TOTAL_Z_CHANGE
    /\ end_idx - start_idx >= MIN_STAIR_POINTS

\* end of the run of changing_z that starts at i: the inner while loop
RECURSIVE RunEnd(_, _)
RunEnd(cz, i) ==
    IF i < Len(cz) /\ cz[i + 1] THEN RunEnd(cz, i + 1) ELSE i

\* Step 2, the outer while loop from index i on: the accepted runs [start, end)
RECURSIVE StairRuns(_, _, _)
StairRuns(pos, cz, i) ==
    IF i >= Len(pos) THEN << >>
    ELSE IF cz[i + 1]
         THEN LET end_idx == RunEnd(cz, i)
              IN  (IF SegmentAccepted(pos, i, end_idx)
                   THEN << <<i, end_idx>> >> ELSE << >>)
                  \o StairRuns(pos, cz, end_idx)
         ELSE StairRuns(pos, cz, i + 1)

\* is_stair: True on every accepted run
StairMask(pos, runs) ==
    [k1 \in 1 .. Len(pos) |->
        \E r \in 1 .. Len(runs) : runs[r][1] <= k1 - 1 /\ k1 - 1 < runs[r][2]]

\* the branch of _merge_stair_segments that extends current by seg
MergeInto(pos, current, seg) ==
    LET z_end == seg.z_end
        z_disp == Abs(z_end - current.z_start)
    IN  [current EXCEPT
            !.end_idx = seg.end_idx,
            !.z_end = z_end,
            !.z_displacement = z_disp,
            !.type = PassageType(XYLength(pos, current.start_idx, seg.end_idx),
                                 z_disp)]

\* a variant that also takes a gap of exactly gap_threshold as close
CloseEnough_Inclusive(current, seg) == seg.start_idx - current.end_idx <= GAP_THRESHOLD

\* close_enough of _merge_stair_segments
CloseEnough(current, seg) == seg.start_idx - current.end_idx < GAP_THRESHOLD

\* the for loop of _merge_stair_segments over segments[k..], current in hand
RECURSIVE MergeLoop(_, _, _, _)
MergeLoop(pos, segments, k, current) ==
    IF k > Len(segments) THEN <<current>>
    ELSE LET seg == segments[k]
         IN  IF current.direction = seg.direction /\ CloseEnough(current, seg)
             THEN MergeLoop(pos, segments, k + 1, MergeInto(pos, current, seg))
             ELSE <<current>> \o MergeLoop(pos, segments, k + 1, seg)

MergeStairSegments(segments, pos) ==
    IF Len(segments) < 2 THEN segments
    ELSE MergeLoop(pos, segments, 2, segments[1])

\* detect_stairs_first: <<passages, mask>>
DetectStairsFirst(pos) ==
    LET runs == StairRuns(pos, ChangingZ(pos), 0)
        segs == [r \in 1 .. Len(runs) |-> StairSegment(pos, runs[r][1], runs[r][2])]
    IN  <<MergeStairSegments(segs, pos), StairMask(pos, runs)>>

-----------------------------------------------------------------------------
(* vertical_detector.separate_floors and _cluster_z_values *)

\* original_indices: the 0-based indices i with floor_mask[i], ascending
RECURSIVE FloorIndices(_, _)
FloorIndices(mask, k) ==
    IF k >= Len(mask) THEN << >>
    ELSE (IF mask[k + 1] THEN << >> ELSE <<k>>) \o FloorIndices(mask, k + 1)

RECURSIVE SeqMin(_)
SeqMin(s) == IF Len(s) = 1 THEN s[1] ELSE Min2(Head(s), SeqMin(Tail(s)))

RECURSIVE SeqMax(_)
SeqMax(s) == IF Len(s) = 1 THEN s[1] ELSE Max2(Head(s), SeqMax(Tail(s)))

\* bin_size = 0.5
BinSize == Metre \div 2

\* num_bins = max(int(z_range / bin_size), 20)
NumBins(z_range) == Max2(z_range \div BinSize, 20)

\* np.histogram's bin of z (0-based): equal-width bins on [z_min, z_max], the last
\* one closed on the right
BinOf(z, z_min, z_range, num_bins) ==
    Min2(((z - z_min) * num_bins) \div z_range, num_bins - 1)

\* hist (entry b + 1 is the count of bin b)
Histogram(z_values, z_min, z_range, num_bins) ==
    [b1 \in 1 .. num_bins |->
        Cardinality({i \in 1 .. Len(z_values) :
            BinOf(z_values[i], z_min, z_range, num_bins) = b1 - 1})]

\* weights of gaussian_filter1d(sigma=1.5), radius int(4 * 1.5 + 0.5) = 6, normalised,
\* in thousandths: entry |k| + 1 is the weight at offset k
GaussKernel == <<266, 213, 109, 36, 8, 1, 0>>

\* index of the sample at position b (0-based) of an array of length n under
\* scipy.ndimage's mode='reflect' (d c b a | a b c d | d c b a)
Reflect(b, n) == IF b < 0 THEN -b - 1 ELSE IF b >= n THEN 2 * n - 1 - b ELSE b

\* smoothed_hist, in thousandths of a count
SmoothedHist(hist) ==
    LET n == Len(hist)
    IN  [b1 \in 1 .. n |->
            SumSeq([j \in 1 .. 13 |->
                GaussKernel[Abs(j - 7) + 1] * hist[Reflect(b1 - 1 + j - 7, n) + 1]])]

\* significant_bins of _find_histogram_peaks (0-based, ascending); min_count is
\* len(z_values) * 0.03, smoothed counts are in thousandths
RECURSIVE SignificantBins(_, _, _)
SignificantBins(smoothed, n_values, b) ==
    IF b >= Len(smoothed) THEN << >>
    ELSE (IF smoothed[b + 1] >= 30 * n_values THEN <<b>> ELSE << >>)
            \o SignificantBins(smoothed, n_values, b + 1)

\* regions: runs of significant bins whose consecutive members are at most 2 apart
RECURSIVE Regions(_, _, _)
Regions(sig, i, current_region) ==
    IF i > Len(sig) THEN <<current_region>>
    ELSE IF sig[i] - sig[i - 1] <= 2
         THEN Regions(sig, i + 1, Append(current_region, sig[i]))
         ELSE <<current_region>> \o Regions(sig, i + 1, <<sig[i]>>)

\* peak_z of a region: np.average of the bin centres weighted by the smoothed counts,
\* rounded down to the millimetre.  The centre of bin b is
\* z_min + (2 b + 1) * z_range / (2 * num_bins).
PeakZ(region, smoothed, z_min, z_range) ==
    LET num_bins == Len(smoothed)
        a == SumSeq([i \in 1 .. Len(region) |->
                        (2 * region[i] + 1) * smoothed[region[i] + 1]])
        b == SumSeq([i \in 1 .. Len(region) |-> smoothed[region[i] + 1]])
    IN  z_min + (z_range * (a \div b) + (z_range * (a % b)) \div b) \div (2 * num_bins)

\* 0.7 * threshold, the least distance of a new peak from the accepted ones
PeakSeparation(threshold) == (7 * threshold) \div 10

\* the loop over regions of _find_histogram_peaks, peaks accepted so far in hand
RECURSIVE PeakLoop(_, _, _, _, _, _, _)
PeakLoop(regions, r, smoothed, z_min, z_range, threshold, peaks) ==
    IF r > Len(regions) THEN peaks
    ELSE LET region == regions[r]
             total == SumSeq([i \in 1 .. Len(region) |-> smoothed[region[i] + 1]])
             peak_z == PeakZ(region, smoothed, z_min, z_range)
             is_new_peak == \A e \in 1 .. Len(peaks) :
                                ~(Abs(peak_z - peaks[e]) < PeakSeparation(threshold))
         IN  PeakLoop(regions, r + 1, smoothed, z_min, z_range, threshold,
                      IF total > 0 /\ is_new_peak THEN Append(peaks, peak_z) ELSE peaks)

FindHistogramPeaks(smoothed, n_values, z_min, z_range, threshold) ==
    LET sig == SignificantBins(smoothed, n_values, 0)
    IN  IF Len(sig) = 0 THEN << >>
        ELSE PeakLoop(Regions(sig, 2, <<sig[1]>>), 1, smoothed, z_min, z_range,
                      threshold, << >>)

\* num_floors = max(1, int(z_range / threshold) + 1) of the fallback
FallbackFloors(z_range, threshold) == Max2(1, z_range \div threshold + 1)

\* the fallback peaks z_min + (i + 0.5) * (z_range / num_floors)
FallbackPeaks(z_min, z_range, threshold) ==
    LET num_floors == FallbackFloors(z_range, threshold)
    IN  [i1 \in 1 .. num_floors |->
            z_min + ((2 * i1 - 1) * z_range) \div (2 * num_floors)]

\* sorted(peaks): insertion of x into an ascending sequence
RECURSIVE InsertSorted(_, _)
InsertSorted(s, x) ==
    IF s = << >> THEN <<x>>
    ELSE IF x < Head(s) THEN <<x>> \o s
         ELSE <<Head(s)>> \o InsertSorted(Tail(s), x)

RECURSIVE SortAsc(_)
SortAsc(s) == IF s = << >> THEN << >> ELSE InsertSorted(SortAsc(Tail(s)), Head(s))

\* np.argmin(np.abs(peaks_array - z)): 0-based index of the first nearest peak
ArgMinPeak(peaks, z) ==
    CHOOSE i \in 0 .. Len(peaks) - 1 :
        /\ \A j \in 0 .. Len(peaks) - 1 : Abs(peaks[i + 1] - z) <= Abs(peaks[j + 1] - z)
        /\ \A j \in 0 .. i - 1 : Abs(peaks[j + 1] - z) > Abs(peaks[i + 1] - z)

\* the peaks _cluster_z_values assigns to (empty in the single-floor case)
ClusterPeaks(z_values, threshold) ==
    LET z_min == SeqMin(z_values)
        z_range == SeqMax(z_values) - z_min
        num_bins == NumBins(z_range)
        smoothed == SmoothedHist(Histogram(z_values, z_min, z_range, num_bins))
        peaks == FindHistogramPeaks(smoothed, Len(z_values), z_min, z_range, threshold)
    IN  IF z_range < threshold THEN << >>
        ELSE IF Len(peaks) = 0 THEN FallbackPeaks(z_min, z_range, threshold)
        ELSE SortAsc(peaks)

\* _cluster_z_values: the level of every z value
ClusterZValues(z_values, threshold) ==
    LET peaks == ClusterPeaks(z_values, threshold)
    IN  [i \in 1 .. Len(z_values) |->
            IF peaks = << >> THEN 0 ELSE ArgMinPeak(peaks, z_values[i])]

\* the members (positions into the floor arrays, 1-based, ascending) of a level
RECURSIVE LevelMembers(_, _, _)
LevelMembers(levels, level, i) ==
    IF i > Len(levels) THEN << >>
    ELSE (IF levels[i] = level THEN <<i>> ELSE << >>)
            \o LevelMembers(levels, level, i + 1)

\* the dict appended to valid_clusters for a level; z_mean is z_sum / point_count
Cluster(pos, original_indices, members) ==
    LET zs == [m \in 1 .. Len(members) |-> pos[original_indices[members[m]] + 1][3]]
    IN  [positions |-> [m \in 1 .. Len(members) |-> pos[original_indices[members[m]] + 1]],
         indices |-> [m \in 1 .. Len(members) |-> original_indices[members[m]]],
         z_sum |-> SumSeq(zs),
         z_min |-> SeqMin(zs),
         z_max |-> SeqMax(zs),
         point_count |-> Len(members)]

\* a variant of the sort key order: descending z_mean
ZMeanLess_Descending(c1, c2) == c2.z_sum * c1.point_count < c1.z_sum * c2.point_count

\* c1['z_mean'] < c2['z_mean']
ZMeanLess(c1, c2) == c1.z_sum * c2.point_count < c2.z_sum * c1.point_count

\* valid_clusters.sort(key=z_mean): a stable insertion sort
RECURSIVE InsertCluster(_, _)
InsertCluster(s, c) ==
    IF s = << >> THEN <<c>>
    ELSE IF ZMeanLess(c, Head(s)) THEN <<c>> \o s
         ELSE <<Head(s)>> \o InsertCluster(Tail(s), c)

RECURSIVE SortClusters(_, _)
SortClusters(clusters, k) ==
    IF k = 0 THEN << >>
    ELSE InsertCluster(SortClusters(clusters, k - 1), clusters[k])

\* the loop over unique_levels: the clusters that keep min_points_per_floor points,
\* in ascending level order
RECURSIVE ValidClusters(_, _, _, _, _)
ValidClusters(pos, original_indices, levels, level, max_level) ==
    IF level > max_level THEN << >>
    ELSE LET members == LevelMembers(levels, level, 1)
         IN  (IF Len(members) < MIN_POINTS_PER_FLOOR THEN << >>
              ELSE <<Cluster(pos, original_indices, members)>>)
             \o ValidClusters(pos, original_indices, levels, level + 1, max_level)

\* the final loop of separate_floors: floors[i + 1] = cluster for i, cluster in
\* enumerate(valid_clusters)
NumberFloors(valid_clusters) ==
    [floor_number \in {i + 1 : i \in 0 .. Len(valid_clusters) - 1} |->
        valid_clusters[floor_number]]

\* Steps 2 and 3 of separate_floors on the points with the given original indices
GroupFloors(pos, original_indices) ==
    LET z_values == [i \in 1 .. Len(original_indices) |-> pos[original_indices[i] + 1][3]]
        levels == ClusterZValues(z_values, DEFAULT_FLOOR_HEIGHT)
        valid_clusters == ValidClusters(pos, original_indices, levels, 0, SeqMax(levels))
    IN  IF Len(original_indices) = 0 THEN << >>
        ELSE NumberFloors(SortClusters(valid_clusters, Len(valid_clusters)))

\* a variant of separate_floors that takes the branch for stair_mask None although
\* a mask is given: every point is a floor point
SeparateFloors_IgnoringMask(pos, mask) ==
    GroupFloors(pos, [i \in 1 .. Len(pos) |-> i - 1])

\* separate_floors(positions, node_ids, stair_mask=mask): the dict floors;
\* Step 1 keeps the points whose mask is False
SeparateFloors(pos, mask) == GroupFloors(pos, FloorIndices(mask, 0))

-----------------------------------------------------------------------------
(* vertical_detector.assign_floors_to_stairs *)

\* abs(c1['z_mean'] - z) < abs(c2['z_mean'] - z)
NearerFloor(c1, c2, z) ==
    Abs(c1.z_sum - c1.point_count * z) * c2.point_count
        < Abs(c2.z_sum - c2.point_count * z) * c1.point_count

\* _find_nearest_floor: 0 without floors, else the first floor at the least distance
FindNearestFloor(z_value, floors) ==
    IF DOMAIN floors = {} THEN 0
    ELSE CHOOSE f \in DOMAIN floors :
            /\ \A g \in DOMAIN floors : ~NearerFloor(floors[g], floors[f], z_value)
            /\ \A g \in DOMAIN floors : g < f => NearerFloor(floors[f], floors[g], z_value)

\* segment['from_floor'] = ..., segment['to_floor'] = ...: the dict gains the two keys
WithFloors(segment, from_floor, to_floor) ==
    [key \in DOMAIN segment \cup {"from_floor", "to_floor"} |->
        IF key = "from_floor" THEN from_floor
        ELSE IF key = "to_floor" THEN to_floor
        ELSE segment[key]]

AssignFloorsToStairs(stair_segments, floors) ==
    [s \in 1 .. Len(stair_segments) |->
        WithFloors(stair_segments[s],
                   FindNearestFloor(stair_segments[s].z_start, floors),
                   FindNearestFloor(stair_segments[s].z_end, floors))]

-----------------------------------------------------------------------------
(* smoothing.remove_outliers *)

\* threshold_std of remove_outliers (DEFAULT_OUTLIER_THRESHOLD = 3.0), squared
OutlierThresholdSq == 3 * 3

\* distances: the lengths of the steps; the statistics are taken in centimetres
StepLengths(positions) ==
    [i \in 1 .. Len(positions) - 1 |-> Norm(positions[i], positions[i + 1]) \div 10]

\* dist > mean_dist + threshold_std * std_dist over the n step lengths with sum s and
\* sum of squares q:  n*dist - s > 0  and  (n*dist - s)^2 > 9 * (n*q - s^2)
ExceedsOutlierThreshold(dist, n, s, q) ==
    /\ n * dist - s > 0
    /\ ((n * dist - s) * (n * dist - s) - 1) \div OutlierThresholdSq >= n * q - s * s

\* (positions[i - 1] + positions[i + 1]) / 2
Midpoint(a, b) ==
    <<(a[1] + b[1]) \div 2, (a[2] + b[2]) \div 2, (a[3] + b[3]) \div 2>>

RemoveOutliers(positions) ==
    IF Len(positions) < 5 THEN positions
    ELSE LET distances == StepLengths(positions)
             n == Len(distances)
             s == SumSeq(distances)
             q == SumSeq([i \in 1 .. n |-> distances[i] * distances[i]])
         IN  [i \in 1 .. Len(positions) |->
                IF /\ 1 < i
                   /\ i < Len(positions)
                   /\ \/ ExceedsOutlierThreshold(distances[i - 1], n, s, q)
                      \/ ExceedsOutlierThreshold(distances[i], n, s, q)
                THEN Midpoint(positions[i - 1], positions[i + 1])
                ELSE positions[i]]

-----------------------------------------------------------------------------
(* deduplication.merge_overlapping_segments *)

\* overlap_threshold=1.0 and distance_threshold=0.5 of process_path_async
OverlapThreshold == Metre
DistanceThreshold == Metre \div 2

\* _find_revisit_point: 0-based index of the first point of path[:-1] closer than
\* threshold to point, -1 for None
FindRevisitPoint(path, point, threshold) ==
    LET hits == {i \in 1 .. Len(path) - 1 : Dist2(path[i], point) < threshold * threshold}
    IN  IF hits = {} THEN -1
        ELSE (CHOOSE i \in hits : \A j \in hits : i <= j) - 1

\* _find_divergence_point: 0-based index of the first point of forward_path farther
\* than threshold from every point of backward_path, -1 for None
FindDivergencePoint(forward_path, backward_path, threshold) ==
    LET hits == {i \in 1 .. Len(forward_path) :
                    \A b \in 1 .. Len(backward_path) :
                        Dist2(backward_path[b], forward_path[i]) > threshold * threshold}
    IN  IF hits = {} THEN -1
        ELSE (CHOOSE i \in hits : \A j \in hits : i <= j) - 1

\* the while loop of merge_overlapping_segments at scan index i (0-based), result in
\* hand.  A divergence index of 0 would leave i where it is: the loop would not end,
\* and the model reports it by the result "diverges".
RECURSIVE MergeScan(_, _, _, _)
MergeScan(positions, i, result, threshold) ==
    IF i >= Len(positions) THEN result
    ELSE LET current == positions[i + 1]
             revisit_idx == FindRevisitPoint(result, current, threshold)
             diverge_idx ==
                IF revisit_idx # -1 /\ revisit_idx < Len(result) - 2
                THEN FindDivergencePoint(Slice(positions, i, Len(positions)),
                                         Slice(result, revisit_idx, Len(result)),
                                         threshold)
                ELSE -1
         IN  IF diverge_idx = 0 THEN "diverges"
             ELSE IF diverge_idx > 0
                  THEN MergeScan(positions, i + diverge_idx, result, threshold)
                  ELSE MergeScan(positions, i + 1, Append(result, current), threshold)

MergeOverlappingSegments(positions, overlap_threshold) ==
    IF Len(positions) < 3 THEN positions
    ELSE MergeScan(positions, 1, <<positions[1]>>, overlap_threshold)

-----------------------------------------------------------------------------
(* deduplication.deduplicate_path *)

\* a variant that takes the open ball
Neighbors_OpenBall(positions, i, threshold) ==
    {j \in 1 .. Len(positions) : Dist2(positions[i], positions[j]) < threshold * threshold}

\* tree.query_ball_point(positions[i], distance_threshold): the indices within the
\* closed ball
Neighbors(positions, i, threshold) ==
    {j \in 1 .. Len(positions) : Dist2(positions[i], positions[j]) <= threshold * threshold}

\* the for loop of Step 4 at index i (1-based), with the indices marked duplicate
\* so far in hand; the value is the final set of duplicates (keep_mask False)
RECURSIVE ClaimLoop(_, _, _, _)
ClaimLoop(positions, i, duplicates, threshold) ==
    IF i > Len(positions) THEN duplicates
    ELSE IF i \in duplicates
         THEN ClaimLoop(positions, i + 1, duplicates, threshold)
         ELSE ClaimLoop(positions, i + 1,
                        duplicates \cup {j \in Neighbors(positions, i, threshold) : j > i},
                        threshold)

\* positions[keep_mask]
RECURSIVE KeepUnmarked(_, _, _)
KeepUnmarked(positions, duplicates, i) ==
    IF i > Len(positions) THEN << >>
    ELSE (IF i \in duplicates THEN << >> ELSE <<positions[i]>>)
            \o KeepUnmarked(positions, duplicates, i + 1)

UniquePositions(positions, threshold) ==
    KeepUnmarked(positions, ClaimLoop(positions, 1, {}, threshold), 1)

\* whether deduplicate_path returns its input because fewer than 2 points are left
DedupFallsBack(positions, threshold) ==
    Len(positions) >= 2 /\ Len(UniquePositions(positions, threshold)) < 2

\* a variant without the guarantee of Step 5: whatever the mask keeps
DeduplicatePath_WithoutFallback(positions, distance_threshold) ==
    UniquePositions(positions, distance_threshold)

DeduplicatePath(positions, distance_threshold) ==
    IF Len(positions) < 2 THEN positions
    ELSE IF Len(UniquePositions(positions, distance_threshold)) < 2 THEN positions
    ELSE UniquePositions(positions, distance_threshold)

\* Step 4 of process_path_async for one floor, without the outlier removal:
\* the two stages of the deduplicator
Deduplicator(positions) ==
    DeduplicatePath(MergeOverlappingSegments(positions, OverlapThreshold),
                    DistanceThreshold)

-----------------------------------------------------------------------------
(* smoothing.split_at_gaps *)

\* DEFAULT_GAP_THRESHOLD = 5.0, the gap_threshold default of snap_to_lines
SnapGapThreshold == 5 * Metre

\* split_indices: the 0-based indices of the points that follow a gap
SplitIndices(positions, gap_threshold) ==
    {k \in 1 .. Len(positions) - 1 :
        Dist2(positions[k], positions[k + 1]) > gap_threshold * gap_threshold}

\* the for loop over split_indices from prev on, and the run after the last gap;
\* runs of fewer than 2 points are not appended
RECURSIVE GapRuns(_, _, _)
GapRuns(positions, splits, prev) ==
    IF \E idx \in splits : idx > prev
    THEN LET idx == CHOOSE k \in splits : k > prev /\ \A m \in splits : m > prev => k <= m
         IN  (IF idx - prev >= 2 THEN <<Slice(positions, prev, idx)>> ELSE << >>)
                \o GapRuns(positions, splits, idx)
    ELSE IF Len(positions) - prev >= 2
         THEN <<Slice(positions, prev, Len(positions))>>
         ELSE << >>

SplitAtGaps(positions, gap_threshold) ==
    IF Len(positions) < 2 THEN <<positions>>
    ELSE IF SplitIndices(positions, gap_threshold) = {} THEN <<positions>>
    ELSE GapRuns(positions, SplitIndices(positions, gap_threshold), 0)

-----------------------------------------------------------------------------
(* deduplication.simplify_path_rdp *)

Dot(u, v) == u[1] * v[1] + u[2] * v[2] + u[3] * v[3]

Minus(a, b) == <<a[1] - b[1], a[2] - b[2], a[3] - b[3]>>

\* _point_to_line_distance, in the steps of the code with every intermediate value
\* rounded down to the millimetre; line_unit is kept as the pair line_vec, line_len
PointToLineDistance(point, line_start, line_vec, line_len) ==
    LET point_vec == Minus(point, line_start)
        projection_length == Dot(point_vec, line_vec) \div line_len
        projection_point ==
            <<line_start[1] + (projection_length * line_vec[1]) \div line_len,
              line_start[2] + (projection_length * line_vec[2]) \div line_len,
              line_start[3] + (projection_length * line_vec[3]) \div line_len>>
    IN  Norm(point, projection_point)

\* the for loop of _rdp_recursive from index i (0-based) on: <<max_dist, max_idx>>
RECURSIVE FarthestFromLine(_, _, _, _, _, _)
FarthestFromLine(points, line_vec, line_len, i, max_dist, max_idx) ==
    IF i >= Len(points) - 1 THEN <<max_dist, max_idx>>
    ELSE LET dist == PointToLineDistance(points[i + 1], points[1], line_vec, line_len)
         IN  IF dist > max_dist
             THEN FarthestFromLine(points, line_vec, line_len, i + 1, dist, i)
             ELSE FarthestFromLine(points, line_vec, line_len, i + 1, max_dist, max_idx)

\* _rdp_recursive: the 0-based indices that are kept
RECURSIVE RdpRecursive(_, _)
RdpRecursive(points, epsilon) ==
    IF Len(points) < 3 THEN [k \in 1 .. Len(points) |-> k - 1]
    ELSE LET line_vec == Minus(points[Len(points)], points[1])
             line_len == Norm(points[Len(points)], points[1])
         IN  IF Dist2(points[Len(points)], points[1]) = 0 THEN <<0, Len(points) - 1>>
             ELSE LET far == FarthestFromLine(points, line_vec, line_len, 1, 0, 0)
                      max_idx == far[2]
                  IN  IF far[1] > epsilon
                      THEN LET left_indices ==
                                  RdpRecursive(Slice(points, 0, max_idx + 1), epsilon)
                               right_indices ==
                                  RdpRecursive(Slice(points, max_idx, Len(points)), epsilon)
                           IN  Slice(left_indices, 0, Len(left_indices) - 1)
                                  \o [k \in 1 .. Len(right_indices) |->
                                        right_indices[k] + max_idx]
                      ELSE <<0, Len(points) - 1>>

SimplifyPathRdp(positions, epsilon) ==
    IF Len(positions) < 3 THEN positions
    ELSE LET indices == RdpRecursive(positions, epsilon)
         IN  [k \in 1 .. Len(indices) |-> positions[indices[k] + 1]]

-----------------------------------------------------------------------------
(* path_flattening.snap_to_lines *)

\* epsilon=0.5 and point_spacing=0.5 of process_path_async
SnapEpsilon == Metre \div 2
PointSpacing == Metre \div 2

\* a variant of the point count that rounds the quotient down
NPoints_RoundingDown(length2, spacing) ==
    Max2(1, ISqrt(length2) \div spacing)

\* max(1, int(np.ceil(seg_length / spacing))) from the squared length
NPoints(length2, spacing) ==
    LET whole == ISqrt(length2)
        n == IF whole * whole = length2
             THEN (whole + spacing - 1) \div spacing
             ELSE whole \div spacing + 1
    IN  Max2(1, n)

\* start + t * (end - start) for t = j / n_points, rounded down to the millimetre
Lerp(start, end, j, n_points) ==
    <<start[1] + (j * (end[1] - start[1])) \div n_points,
      start[2] + (j * (end[2] - start[2])) \div n_points,
      start[3] + (j * (end[3] - start[3])) \div n_points>>

\* a variant of the interpolation without the skip of zero-length pairs
LinePoints_KeepingZeroLength(vertices, i, spacing) ==
    LET start == vertices[i + 1]
        end == vertices[i + 2]
        n_points == NPoints(Dist2(end, start), spacing)
    IN  [j \in 1 .. n_points |-> Lerp(start, end, j, n_points)]

\* the points appended for the vertex pair (i, i + 1), 0-based i
LinePoints(vertices, i, spacing) ==
    LET start == vertices[i + 1]
        end == vertices[i + 2]
        n_points == NPoints(Dist2(end, start), spacing)
    IN  IF Dist2(end, start) = 0 THEN << >>
        ELSE [j \in 1 .. n_points |-> Lerp(start, end, j, n_points)]

RECURSIVE InterpolateFrom(_, _, _)
InterpolateFrom(vertices, i, spacing) ==
    IF i >= Len(vertices) - 1 THEN << >>
    ELSE LinePoints(vertices, i, spacing) \o InterpolateFrom(vertices, i + 1, spacing)

InterpolateBetweenVertices(vertices, spacing) ==
    <<vertices[1]>> \o InterpolateFrom(vertices, 0, spacing)

\* one pass of the for loop of snap_to_lines over a segment
SnapSegment(seg, epsilon, point_spacing) ==
    IF Len(seg) < 2 THEN seg
    ELSE LET vertices == SimplifyPathRdp(seg, epsilon)
         IN  IF Len(vertices) < 2 THEN vertices
             ELSE InterpolateBetweenVertices(vertices, point_spacing)

RECURSIVE Concatenate(_)
Concatenate(arrays) ==
    IF arrays = << >> THEN << >> ELSE Head(arrays) \o Concatenate(Tail(arrays))

\* np.concatenate raises ValueError on an empty list of segments
SnapRaises(positions) ==
    Len(positions) >= 3 /\ SplitAtGaps(positions, SnapGapThreshold) = << >>

\* snap_to_lines; the value is << >> where the call raises
SnapToLines(positions, epsilon, point_spacing) ==
    IF Len(positions) < 3 THEN positions
    ELSE LET segments == SplitAtGaps(positions, SnapGapThreshold)
         IN  Concatenate([k \in 1 .. Len(segments) |->
                            SnapSegment(segments[k], epsilon, point_spacing)])

-----------------------------------------------------------------------------
(* junction_detection.detect_junctions *)

MIN_BRANCH_LENGTH == 3
NODE_SPACING == Metre
JUNCTION_MERGE_RADIUS == (3 * Metre) \div 2
EDGE_CONNECTION_RADIUS == 3 * Metre

\* a / b <= c / d for a, c >= 0 and b, d > 0, by the continued fractions of the two
RECURSIVE FracLeq(_, _, _, _)
FracLeq(a, b, c, d) ==
    IF a \div b # c \div d THEN a \div b < c \div d
    ELSE IF a % b = 0 THEN TRUE
    ELSE IF c % d = 0 THEN FALSE
    ELSE FracLeq(d, c % d, b, a % b)

\* _angle_between_vectors(v1, v2) >= angle_threshold (JUNCTION_ANGLE_THRESHOLD = 45.0):
\* 0.0 for a zero vector, else cos <= cos 45, i.e. dot <= 0 or 2 dot^2 <= |v1|^2 |v2|^2
AngleAtLeastThreshold(v1, v2) ==
    LET dot == Dot(v1, v2)
    IN  IF Dot(v1, v1) = 0 \/ Dot(v2, v2) = 0 THEN FALSE
        ELSE IF dot <= 0 THEN TRUE
        ELSE FracLeq(2 * dot, Dot(v1, v1), Dot(v2, v2), dot)

\* the for loop of detect_junctions: the indices i (0-based) appended, in order
RECURSIVE JunctionScan(_, _)
JunctionScan(positions, i) ==
    IF i >= Len(positions) - 2 THEN << >>
    ELSE LET v1 == Minus(positions[i + 1], positions[i])
             v2 == Minus(positions[i + 2], positions[i + 1])
         IN  (IF /\ AngleAtLeastThreshold(v1, v2)
                 /\ i >= MIN_BRANCH_LENGTH
                 /\ Len(positions) - i - 1 >= MIN_BRANCH_LENGTH
              THEN <<i>> ELSE << >>)
                \o JunctionScan(positions, i + 1)

\* _merge_nearby_junctions from list position k on: the index of the first member
\* of every group
RECURSIVE MergeNearbyJunctions(_, _, _, _)
MergeNearbyJunctions(positions, junctions, k, used) ==
    IF k > Len(junctions) THEN << >>
    ELSE IF k \in used THEN MergeNearbyJunctions(positions, junctions, k + 1, used)
    ELSE LET group == {m \in 1 .. Len(junctions) :
                          /\ m \notin used
                          /\ m # k
                          /\ Dist2(positions[junctions[k] + 1], positions[junctions[m] + 1])
                                < JUNCTION_MERGE_RADIUS * JUNCTION_MERGE_RADIUS}
         IN  <<junctions[k]>>
                \o MergeNearbyJunctions(positions, junctions, k + 1,
                                        used \cup group \cup {k})

\* detect_junctions: the 'index' of every junction returned
DetectJunctions(positions) ==
    IF Len(positions) < 5 THEN << >>
    ELSE LET junctions == JunctionScan(positions, 1)
         IN  IF Len(junctions) < 2 THEN junctions
             ELSE MergeNearbyJunctions(positions, junctions, 1, {})

-----------------------------------------------------------------------------
(* junction_detection.extract_path_nodes, extract_path_edges, build_path_graph *)

\* PathNode(...).to_dict(); the uuid is the pair of the floor and the position in
\* the list of the floor's nodes
PathNode(positions, i, node_type, floor_level, k) ==
    [id |-> <<floor_level, k>>,
     x |-> positions[i + 1][1],
     y |-> positions[i + 1][2],
     z |-> positions[i + 1][3],
     node_type |-> node_type,
     original_index |-> i,
     floor_level |-> floor_level]

\* a variant of the loop range that visits the final index as well
LoopEnd_IncludingLast(positions) == Len(positions)

\* the end of range(1, len(positions) - 1), the indices the for loop of
\* extract_path_nodes visits
LoopEnd(positions) == Len(positions) - 1

\* the for loop of extract_path_nodes at index i (0-based), with the nodes so far
RECURSIVE NodeScan(_, _, _, _, _)
NodeScan(positions, junction_indices, floor_level, i, nodes) ==
    IF i >= LoopEnd(positions) THEN nodes
    ELSE LET last_node_pos == positions[nodes[Len(nodes)].original_index + 1]
             k == Len(nodes) + 1
         IN  IF i \in junction_indices
             THEN NodeScan(positions, junction_indices, floor_level, i + 1,
                           Append(nodes, PathNode(positions, i, "JUNCTION", floor_level, k)))
             ELSE IF Dist2(positions[i + 1], last_node_pos) >= NODE_SPACING * NODE_SPACING
             THEN NodeScan(positions, junction_indices, floor_level, i + 1,
                           Append(nodes, PathNode(positions, i, "WAYPOINT", floor_level, k)))
             ELSE NodeScan(positions, junction_indices, floor_level, i + 1, nodes)

ExtractPathNodes(positions, junctions, floor_level) ==
    IF Len(positions) < 2 THEN << >>
    ELSE LET junction_indices == {junctions[k] : k \in 1 .. Len(junctions)}
             inner == NodeScan(positions, junction_indices, floor_level, 1,
                               <<PathNode(positions, 0, "ENDPOINT", floor_level, 1)>>)
         IN  Append(inner, PathNode(positions, Len(positions) - 1, "ENDPOINT",
                                    floor_level, Len(inner) + 1))

\* _calculate_path_distance
RECURSIVE CalculatePathDistance(_, _, _)
CalculatePathDistance(positions, start_idx, end_idx) ==
    IF start_idx >= end_idx THEN 0
    ELSE Norm(positions[start_idx + 2], positions[start_idx + 1])
            + CalculatePathDistance(positions, start_idx + 1, end_idx)

\* sorted(nodes, key=lambda n: n.original_index): a stable insertion sort
RECURSIVE InsertNode(_, _)
InsertNode(sorted, node) ==
    IF sorted = << >> THEN <<node>>
    ELSE IF sorted[Len(sorted)].original_index <= node.original_index
         THEN Append(sorted, node)
         ELSE Append(InsertNode(SubSeq(sorted, 1, Len(sorted) - 1), node),
                     sorted[Len(sorted)])

RECURSIVE SortedNodes(_)
SortedNodes(nodes) ==
    IF nodes = << >> THEN << >>
    ELSE InsertNode(SortedNodes(SubSeq(nodes, 1, Len(nodes) - 1)), nodes[Len(nodes)])

PathEdge(node1, node2, distance, edge_type) ==
    [from_node_id |-> node1.id,
     to_node_id |-> node2.id,
     distance |-> distance,
     is_bidirectional |-> TRUE,
     edge_type |-> edge_type]

\* the for loop of extract_path_edges from list position i (0-based) on
RECURSIVE EdgeScan(_, _, _)
EdgeScan(sorted_nodes, positions, i) ==
    IF i >= Len(sorted_nodes) - 1 THEN << >>
    ELSE LET node1 == sorted_nodes[i + 1]
             node2 == sorted_nodes[i + 2]
             path_distance == CalculatePathDistance(positions, node1.original_index,
                                                    node2.original_index)
         IN  (IF path_distance <= EDGE_CONNECTION_RADIUS
              THEN <<PathEdge(node1, node2, path_distance, "HORIZONTAL")>>
              ELSE << >>)
                \o EdgeScan(sorted_nodes, positions, i + 1)

ExtractPathEdges(nodes, positions) ==
    IF Len(nodes) < 2 THEN << >>
    ELSE EdgeScan(SortedNodes(nodes), positions, 0)

\* build_path_graph: <<nodes, edges>>
BuildPathGraph(positions, floor_level) ==
    LET nodes == ExtractPathNodes(positions, DetectJunctions(positions), floor_level)
    IN  <<nodes, ExtractPathEdges(nodes, positions)>>

-----------------------------------------------------------------------------
(* junction_detection.merge_floor_graphs *)

\* passage.get(key): << >> for None, else the value in a one-element sequence
Get(passage, key) ==
    IF key \in DOMAIN passage THEN <<passage[key]>> ELSE << >>

\* the for loop of _find_nearest_node_to_position from list position k on, with
\* the nearest node so far in a one-element sequence (<< >> for None)
RECURSIVE NearestScan(_, _, _, _, _)
NearestScan(nodes, target, floor_level, k, nearest) ==
    IF k > Len(nodes) THEN nearest
    ELSE LET node == nodes[k]
             node_pos == <<node.x, node.y, node.z>>
         IN  IF node.floor_level # floor_level
             THEN NearestScan(nodes, target, floor_level, k + 1, nearest)
             ELSE IF \/ nearest = << >>
                     \/ Dist2(target, node_pos)
                          < Dist2(target, <<nearest[1].x, nearest[1].y, nearest[1].z>>)
             THEN NearestScan(nodes, target, floor_level, k + 1, <<node>>)
             ELSE NearestScan(nodes, target, floor_level, k + 1, nearest)

\* _find_nearest_node_to_position; position is the value of passage.get(...)
FindNearestNodeToPosition(nodes, position, floor_level) ==
    IF position = << >> \/ nodes = << >> THEN << >>
    ELSE NearestScan(nodes, <<position[1].x, position[1].y, position[1].z>>,
                     floor_level, 1, << >>)

\* a variant of the passage loop that appends the edge without looking for nodes
PassageEdges_WithoutNodes(all_nodes_, passage) ==
    <<[from_node_id |-> <<passage.from_floor, 1>>,
       to_node_id |-> <<passage.to_floor, 1>>,
       distance |-> passage.z_displacement,
       is_bidirectional |-> TRUE,
       edge_type |-> IF passage.type = "ELEVATOR" THEN "VERTICAL_ELEVATOR"
                     ELSE "VERTICAL_STAIRCASE"]>>

\* the edge appended for one passage, if any
PassageEdges(all_nodes_, passage) ==
    LET entry_node == FindNearestNodeToPosition(all_nodes_, Get(passage, "entry_point"),
                                                passage.from_floor)
        exit_node == FindNearestNodeToPosition(all_nodes_, Get(passage, "exit_point"),
                                               passage.to_floor)
    IN  IF entry_node # << >> /\ exit_node # << >>
        THEN <<PathEdge(entry_node[1], exit_node[1], passage.z_displacement,
                        IF passage.type = "ELEVATOR" THEN "VERTICAL_ELEVATOR"
                        ELSE "VERTICAL_STAIRCASE")>>
        ELSE << >>

\* merge_floor_graphs: <<all_nodes, all_edges>>; floor_graphs[f] = <<nodes, edges>>
MergeFloorGraphs(floor_graphs, passages) ==
    LET nodes == Concatenate([f \in 1 .. Len(floor_graphs) |-> floor_graphs[f][1]])
        edges == Concatenate([f \in 1 .. Len(floor_graphs) |-> floor_graphs[f][2]])
    IN  <<nodes,
          edges \o Concatenate([k \in 1 .. Len(passages) |->
                                  PassageEdges(nodes, passages[k])])>>

-----------------------------------------------------------------------------
(* Trajectories: the pose sequences the pose store can hold.  A trajectory is  *)
(* a sequence of legs walked from the origin; every leg appends its points.    *)

MaxLegs == 3

\* a leg: n points, point j displaced from the previous one by (dx, dy, dz), the
\* planar step reversed on every other point when it alternates; the first point
\* is displaced by jump in z on top (a tracking jump of the odometry)
Leg(n, dx, dy, dz, alternate, jump) ==
    [n |-> n, dx |-> dx, dy |-> dy, dz |-> dz, alternate |-> alternate, jump |-> jump]

LegMenu ==
    { Leg(15, 300, 0, 0, FALSE, 0),       \* a corridor
      Leg(15, 0, 300, 0, FALSE, 0),       \* a corridor at a right angle
      Leg(6, 300, 0, 0, FALSE, 0),        \* a stretch too short to make a floor
      Leg(15, 300, 0, 0, FALSE, -6000),   \* a corridor after a jump down two floors
      Leg(6, 300, 0, 0, FALSE, -6000),    \* a short stretch after a jump down two floors
      Leg(14, 300, 0, 0, TRUE, 0),        \* standing in place, ending away from the start
      Leg(15, 300, 0, 0, TRUE, 0),        \* standing in place, ending at the start
      Leg(12, 250, 0, 250, FALSE, 0),     \* a staircase up one floor
      Leg(12, 0, 0, 250, FALSE, 0),       \* a lift up one floor
      Leg(12, 250, 0, -250, FALSE, 0),    \* a staircase down one floor
      Leg(1, 6000, 0, 0, FALSE, 0) }      \* a tracking jump of 6 m along the corridor

RECURSIVE WalkLeg(_, _, _)
WalkLeg(last, leg, j) ==
    IF j > leg.n THEN << >>
    ELSE LET sign == IF leg.alternate /\ j % 2 = 0 THEN -1 ELSE 1
             next == <<last[1] + sign * leg.dx,
                       last[2] + sign * leg.dy,
                       last[3] + leg.dz + (IF j = 1 THEN leg.jump ELSE 0)>>
         IN  <<next>> \o WalkLeg(next, leg, j + 1)

RECURSIVE Trajectory(_, _, _)
Trajectory(plan, k, last) ==
    IF k > Len(plan) THEN << >>
    ELSE LET pts == WalkLeg(last, plan[k], 1)
         IN  pts \o Trajectory(plan, k + 1, pts[Len(pts)])

Plans == UNION {[1 .. k -> LegMenu] : k \in 1 .. MaxLegs}

-----------------------------------------------------------------------------
(* extraction.extract_trajectory_from_db *)

POSE_BLOB_SIZE == 48

\* a row of the Node table: its id, the length in bytes of its pose blob (0 for a
\* NULL or empty blob), the translation column of the 3x4 matrix the blob encodes,
\* and the axes on which that translation is NaN or infinite
NodeRow(id, size, translation, nonfinite) ==
    [id |-> id, size |-> size, translation |-> translation, nonfinite |-> nonfinite]

\* SELECT id, pose FROM Node ORDER BY id
OrderById(table) ==
    [k \in 1 .. Len(table) |->
        CHOOSE r \in {table[i] : i \in 1 .. Len(table)} :
            Cardinality({i \in 1 .. Len(table) : table[i].id < r.id}) = k - 1]

\* extract_pose: None for a missing blob or one of the wrong length, else the matrix
ExtractPose(row) ==
    IF row.size = 0 THEN << >>
    ELSE IF row.size # POSE_BLOB_SIZE THEN << >>
    ELSE <<[translation |-> row.translation, nonfinite |-> row.nonfinite]>>

\* get_position_from_matrix: the last column
GetPositionFromMatrix(matrix) == matrix[1]

\* a variant of the validity test without the origin check
IsValidPosition_KeepingOrigin(position) ==
    position.nonfinite = {}

\* is_valid_position: every component finite, and not all within 1e-6 of zero
IsValidPosition(position) ==
    /\ position.nonfinite = {}
    /\ ~(\A c \in 1 .. 3 : position.translation[c] = 0)

RowSurvives(row) ==
    /\ ExtractPose(row) # << >>
    /\ IsValidPosition(GetPositionFromMatrix(ExtractPose(row)))

\* whether extract_trajectory_from_db raises its ValueError
ExtractRaises(table) ==
    Len(SelectSeq(OrderById(table), RowSurvives)) = 0

\* extract_trajectory_from_db: positions and node_ids of the surviving rows
ExtractTrajectoryFromDb(table) ==
    LET kept == SelectSeq(OrderById(table), RowSurvives)
    IN  [positions |-> [k \in 1 .. Len(kept) |-> kept[k].translation],
         node_ids |-> [k \in 1 .. Len(kept) |-> kept[k].id]]

-----------------------------------------------------------------------------
(* The Node tables an uploaded file can hold *)

MaxRows == 2

\* the table a recording of the trajectory positions leaves
PoseRows(positions) ==
    [k \in 1 .. Len(positions) |-> NodeRow(k, POSE_BLOB_SIZE, positions[k], {})]

\* the 5-point corridor of scenario S1
ScenarioS1 ==
    <<<<0, 0, 0>>, <<100, 0, 0>>, <<900, 50, 0>>, <<2000, -50, 0>>, <<3000, 0, 0>>>>

\* the blobs of a row: missing, of the wrong length, with a NaN, with an infinite
\* component, at the origin, and two good poses
BlobMenu ==
    { NodeRow(0, 0, <<0, 0, 0>>, {}),
      NodeRow(0, 24, <<300, 0, 0>>, {}),
      NodeRow(0, POSE_BLOB_SIZE, <<300, 0, 0>>, {2}),
      NodeRow(0, POSE_BLOB_SIZE, <<0, 0, 0>>, {1, 2, 3}),
      NodeRow(0, POSE_BLOB_SIZE, <<0, 0, 0>>, {}),
      NodeRow(0, POSE_BLOB_SIZE, <<300, 0, 0>>, {}),
      NodeRow(0, POSE_BLOB_SIZE, <<0, 0, 300>>, {}) }

\* the tables of up to MaxRows rows, stored in any order of their ids
SmallTables ==
    UNION {{[k \in 1 .. n |-> [blobs[k] EXCEPT !.id = ids[k]]] :
              blobs \in [1 .. n -> BlobMenu],
              ids \in {f \in [1 .. n -> 1 .. n] : \A i, j \in 1 .. n : f[i] = f[j] => i = j}} :
           n \in 0 .. MaxRows}

Databases ==
    {PoseRows(Trajectory(plan, 1, <<0, 0, 0>>)) : plan \in Plans}
        \cup {PoseRows(ScenarioS1)}
        \cup SmallTables

-----------------------------------------------------------------------------
(* extraction.get_trajectory_stats, junction_detection.get_graph_stats and     *)
(* main._build_processing_result                                               *)

Axis(positions, c) == [k \in 1 .. Len(positions) |-> positions[k][c]]

\* the lengths of the steps of a polyline: norm(positions[i + 1] - positions[i])
SegmentLengths(positions) ==
    [i \in 1 .. Len(positions) - 1 |-> Norm(positions[i + 1], positions[i])]

GetTrajectoryStats(positions) ==
    LET segment_distances == SegmentLengths(positions)
    IN  [total_nodes |-> Len(positions),
         x_range |-> <<SeqMin(Axis(positions, 1)), SeqMax(Axis(positions, 1))>>,
         y_range |-> <<SeqMin(Axis(positions, 2)), SeqMax(Axis(positions, 2))>>,
         z_range |-> <<SeqMin(Axis(positions, 3)), SeqMax(Axis(positions, 3))>>,
         total_distance |-> SumSeq(segment_distances),
         avg_step_distance |->
            IF Len(segment_distances) > 0
            THEN SumSeq(segment_distances) \div Len(segment_distances) ELSE 0]

\* type_counts.get(node_type, 0)
TypeCount(nodes, node_type) ==
    Cardinality({n \in 1 .. Len(nodes) : nodes[n].node_type = node_type})

GetGraphStats(nodes, edges) ==
    LET total_distance == SumSeq([e \in 1 .. Len(edges) |-> edges[e].distance])
    IN  [total_nodes |-> Len(nodes),
         total_edges |-> Len(edges),
         node_type_counts |->
            [t \in {nodes[n].node_type : n \in 1 .. Len(nodes)} |-> TypeCount(nodes, t)],
         total_path_distance |-> total_distance,
         average_edge_length |->
            IF Len(edges) > 0 THEN total_distance \div Len(edges) ELSE 0,
         junction_count |-> TypeCount(nodes, "JUNCTION"),
         endpoint_count |-> TypeCount(nodes, "ENDPOINT")]

\* {**a, **b}
MergeDicts(a, b) ==
    [key \in DOMAIN a \cup DOMAIN b |-> IF key \in DOMAIN b THEN b[key] ELSE a[key]]

\* one entry of floor_paths
FloorPath(floor_level, positions) ==
    [floor_level |-> floor_level,
     segments |-> [i \in 1 .. Len(positions) - 1 |->
                     [sequence_order |-> i - 1,
                      start_point |-> positions[i],
                      end_point |-> positions[i + 1],
                      length |-> Norm(positions[i + 1], positions[i])]],
     total_distance |-> SumSeq(SegmentLengths(positions))]

\* one entry of the result's vertical_passages; passage['positions'] is
\* positions[start_idx:end_idx] of the trajectory
PassageResult(passage, positions) ==
    [type |-> passage.type,
     from_floor_level |-> passage.from_floor,
     to_floor_level |-> passage.to_floor,
     entry_point |-> positions[passage.start_idx + 1],
     exit_point |-> positions[passage.end_idx]]

BuildProcessingResult(positions, floors, passages, nodes, edges, trajectory_stats, graph_stats) ==
    [total_nodes |-> Len(positions),
     total_distance |->
        SumSeq([f \in 1 .. Len(floors) |-> SumSeq(SegmentLengths(floors[f]))]),
     floor_paths |-> [f \in 1 .. Len(floors) |-> FloorPath(f, floors[f])],
     vertical_passages |->
        [k \in 1 .. Len(passages) |-> PassageResult(passages[k], positions)],
     path_nodes |-> nodes,
     path_edges |-> edges,
     stats |-> MergeDicts(trajectory_stats, graph_stats)]

-----------------------------------------------------------------------------
(* process_path_async *)

jobs_vars == <<processing_jobs, job_locals>>

pipeline_vars == <<node_table, raw_positions, vertical_passages, stair_mask, floors_data,
                   deduplicated_floors, smoothed_floors, all_nodes, all_edges,
                   job_result, args_before, args_after, jobs_vars>>

function_vars == <<points_in, out_once, out_twice>>

Init ==
    /\ pc = "PENDING"
    /\ node_table \in Databases
    /\ raw_positions = << >>
    /\ vertical_passages = << >>
    /\ stair_mask = << >>
    /\ floors_data = << >>
    /\ deduplicated_floors = << >>
    /\ smoothed_floors = << >>
    /\ all_nodes = << >>
    /\ all_edges = << >>
    /\ job_result = << >>
    /\ args_before = << >>
    /\ args_after = << >>
    /\ processing_jobs = << >>
    /\ job_locals = << >>
    /\ points_in = << >>
    /\ out_once = << >>
    /\ out_twice = << >>

\* Step 1: extract_trajectory_from_db; its ValueError ends the job in the except
\* branch
Extract ==
    /\ pc = "PENDING"
    /\ IF ExtractRaises(node_table)
       THEN /\ pc' = "FAILED"
            /\ UNCHANGED raw_positions
       ELSE /\ pc' = "extracted"
            /\ raw_positions' = ExtractTrajectoryFromDb(node_table).positions
    /\ UNCHANGED <<node_table, vertical_passages, stair_mask, floors_data,
                   deduplicated_floors, smoothed_floors, all_nodes, all_edges,
                   function_vars,
                   job_result, args_before, args_after, jobs_vars>>

\* assign_floors_to_stairs writes from_floor and to_floor into the dicts of the list
\* it is handed and returns that list: the argument, once the call has returned, is
\* the returned value
StairSegmentsAfterAssign(stair_segments, floors) ==
    AssignFloorsToStairs(stair_segments, floors)

\* the arrays handed to remove_outliers, merge_overlapping_segments and
\* deduplicate_path for one floor; each call returns a new array or its argument
DeduplicatorArgs(positions) ==
    <<positions,
      RemoveOutliers(positions),
      MergeOverlappingSegments(RemoveOutliers(positions), OverlapThreshold)>>

\* Step 2: detect_stairs_first
Detect ==
    /\ pc = "extracted"
    /\ LET r == DetectStairsFirst(raw_positions)
       IN  /\ vertical_passages' = r[1]
           /\ stair_mask' = r[2]
    /\ args_before' = [positions |-> raw_positions]
    /\ args_after' = [positions |-> raw_positions]
    /\ pc' = "detected"
    /\ UNCHANGED <<node_table, raw_positions, floors_data, deduplicated_floors,
                   smoothed_floors, all_nodes, all_edges, function_vars,
                   job_result, jobs_vars>>

\* Step 3: separate_floors, then assign_floors_to_stairs
Separate ==
    /\ pc = "detected"
    /\ LET floors == SeparateFloors(raw_positions, stair_mask)
       IN  /\ floors_data' = floors
           /\ vertical_passages' = AssignFloorsToStairs(vertical_passages, floors)
           /\ args_before' = [positions |-> raw_positions, stair_mask |-> stair_mask,
                               stair_segments |-> vertical_passages,
                               floors_data |-> floors]
           /\ args_after' = [positions |-> raw_positions, stair_mask |-> stair_mask,
                              stair_segments |->
                                 StairSegmentsAfterAssign(vertical_passages, floors),
                              floors_data |-> floors]
    /\ pc' = "separated"
    /\ UNCHANGED <<node_table, raw_positions, stair_mask, deduplicated_floors,
                   smoothed_floors, all_nodes, all_edges, function_vars,
                   job_result, jobs_vars>>

\* Step 4 of process_path_async: every floor is cleaned, merged and deduplicated
Deduplicate ==
    /\ pc = "separated"
    /\ deduplicated_floors' =
          [f \in DOMAIN floors_data |->
              DeduplicatePath(
                  MergeOverlappingSegments(RemoveOutliers(floors_data[f].positions),
                                           OverlapThreshold),
                  DistanceThreshold)]
    /\ args_before' = [f \in DOMAIN floors_data |-> DeduplicatorArgs(floors_data[f].positions)]
    /\ args_after' = [f \in DOMAIN floors_data |-> DeduplicatorArgs(floors_data[f].positions)]
    /\ pc' = "deduplicated"
    /\ UNCHANGED <<node_table, raw_positions, vertical_passages, stair_mask, floors_data,
                   smoothed_floors, all_nodes, all_edges, function_vars,
                   job_result, jobs_vars>>

\* Step 5: every floor is snapped to lines; an exception of snap_to_lines ends the
\* job in the except branch
Snap ==
    /\ pc = "deduplicated"
    /\ IF \E f \in DOMAIN deduplicated_floors : SnapRaises(deduplicated_floors[f])
       THEN /\ pc' = "FAILED"
            /\ UNCHANGED smoothed_floors
       ELSE /\ pc' = "snapped"
            /\ smoothed_floors' =
                  [f \in DOMAIN deduplicated_floors |->
                      SnapToLines(deduplicated_floors[f], SnapEpsilon, PointSpacing)]
    /\ args_before' = [positions |-> deduplicated_floors]
    /\ args_after' = [positions |-> deduplicated_floors]
    /\ UNCHANGED <<node_table, raw_positions, vertical_passages, stair_mask, floors_data,
                   deduplicated_floors, all_nodes, all_edges,
                   function_vars,
                   job_result, jobs_vars>>

\* Step 7: one graph per floor, then merge_floor_graphs
BuildGraph ==
    /\ pc = "snapped"
    /\ LET floor_graphs == [f \in 1 .. Len(smoothed_floors) |->
                              BuildPathGraph(smoothed_floors[f], f)]
           merged == MergeFloorGraphs(floor_graphs, vertical_passages)
       IN  /\ all_nodes' = merged[1]
           /\ all_edges' = merged[2]
           /\ args_before' = [positions |-> smoothed_floors, floor_graphs |-> floor_graphs,
                               vertical_passages |-> vertical_passages]
           /\ args_after' = [positions |-> smoothed_floors, floor_graphs |-> floor_graphs,
                              vertical_passages |-> vertical_passages]
    /\ pc' = "graph_built"
    /\ UNCHANGED <<node_table, raw_positions, vertical_passages, stair_mask, floors_data,
                   deduplicated_floors, smoothed_floors, function_vars,
                   job_result, jobs_vars>>

\* Steps 8 and 9: the preview images (which leave the data alone), the result,
\* and the completion of the job
BuildResult ==
    /\ pc = "graph_built"
    /\ job_result' =
          BuildProcessingResult(raw_positions, smoothed_floors, vertical_passages,
                                all_nodes, all_edges,
                                GetTrajectoryStats(raw_positions),
                                GetGraphStats(all_nodes, all_edges))
    /\ pc' = "COMPLETED"
    /\ UNCHANGED <<node_table, raw_positions, vertical_passages, stair_mask, floors_data,
                   deduplicated_floors, smoothed_floors, all_nodes, all_edges,
                   function_vars, args_before, args_after, jobs_vars>>

Next ==
    Extract \/ Detect \/ Separate \/ Deduplicate \/ Snap \/ BuildGraph \/ BuildResult

Spec == Init /\ [][Next]_vars

-----------------------------------------------------------------------------
(* The functions of the floor chain on their own: a point sequence is drawn,    *)
(* the function is applied, and applied again to its result.                    *)

MaxSteps == 5

\* the displacements a drawn sequence is made of
DedupSteps ==
    {<<400, 0, 0>>, <<1600, 0, 0>>, <<2000, 0, 0>>, <<-3200, 0, 0>>, <<0, 400, 0>>}

SnapSteps ==
    {<<300, 0, 0>>, <<-300, 0, 0>>, <<6000, 0, 0>>, <<0, 300, 0>>}

NodeSteps ==
    {<<500, 0, 0>>, <<0, 500, 0>>, <<1000, 0, 0>>}

\* the point sequence that starts at last and takes steps[k], steps[k + 1], ...
RECURSIVE PathFrom(_, _, _)
PathFrom(steps, k, last) ==
    IF k > Len(steps) THEN <<last>>
    ELSE <<last>> \o PathFrom(steps, k + 1,
                              <<last[1] + steps[k][1], last[2] + steps[k][2],
                                last[3] + steps[k][3]>>)

Inputs(menu) ==
    {PathFrom(steps, 1, <<0, 0, 0>>) :
        steps \in UNION {[1 .. k -> menu] : k \in 0 .. MaxSteps}}

InitFunction(menu) ==
    /\ pc = "input"
    /\ points_in \in Inputs(menu)
    /\ out_once = << >>
    /\ out_twice = << >>
    /\ node_table = << >>
    /\ raw_positions = << >>
    /\ vertical_passages = << >>
    /\ stair_mask = << >>
    /\ floors_data = << >>
    /\ deduplicated_floors = << >>
    /\ smoothed_floors = << >>
    /\ all_nodes = << >>
    /\ all_edges = << >>
    /\ job_result = << >>
    /\ args_before = << >>
    /\ args_after = << >>
    /\ processing_jobs = << >>
    /\ job_locals = << >>

(* the deduplicator, twice *)

InitDedup == InitFunction(DedupSteps)

DedupOnce ==
    /\ pc = "input"
    /\ out_once' = Deduplicator(points_in)
    /\ pc' = "once"
    /\ UNCHANGED <<points_in, out_twice, pipeline_vars>>

DedupTwice ==
    /\ pc = "once"
    /\ out_twice' = Deduplicator(out_once)
    /\ pc' = "twice"
    /\ UNCHANGED <<points_in, out_once, pipeline_vars>>

NextDedup == DedupOnce \/ DedupTwice

SpecDedup == InitDedup /\ [][NextDedup]_vars

(* each stage of the deduplicator alone on a drawn sequence *)

\* short steps, so that a whole sequence can lie within the distance threshold of
\* its first point, and steps back, so that a sequence can revisit itself
StageSteps ==
    {<<100, 0, 0>>, <<-100, 0, 0>>, <<400, 0, 0>>, <<-1200, 0, 0>>, <<0, 600, 0>>}

InitStages == InitFunction(StageSteps)

MergeAlone ==
    /\ pc = "input"
    /\ out_once' = MergeOverlappingSegments(points_in, OverlapThreshold)
    /\ pc' = "merged"
    /\ UNCHANGED <<points_in, out_twice, pipeline_vars>>

DedupAlone ==
    /\ pc = "input"
    /\ out_twice' = DeduplicatePath(points_in, DistanceThreshold)
    /\ pc' = "deduplicated"
    /\ UNCHANGED <<points_in, out_once, pipeline_vars>>

NextStages == MergeAlone \/ DedupAlone

SpecStages == InitStages /\ [][NextStages]_vars

(* merge_overlapping_segments, one iteration of its while loop at a time *)

\* a variant that compares with the path after the revisited point only
BackwardPath_AfterRevisit(result, revisit_idx) ==
    Slice(result, revisit_idx + 1, Len(result))

\* result[revisit_idx:], the second argument of _find_divergence_point
BackwardPath(result, revisit_idx) == Slice(result, revisit_idx, Len(result))

\* whether the iteration at scan index i calls _find_divergence_point
RevisitDetected(result, current, threshold) ==
    /\ FindRevisitPoint(result, current, threshold) # -1
    /\ FindRevisitPoint(result, current, threshold) < Len(result) - 2

\* diverge_idx of the iteration at scan index i with result in hand; -1 for None
\* and where _find_divergence_point is not called
DivergeIdx(positions, i, result, threshold) ==
    IF RevisitDetected(result, positions[i + 1], threshold)
    THEN FindDivergencePoint(Slice(positions, i, Len(positions)),
                             BackwardPath(result,
                                          FindRevisitPoint(result, positions[i + 1],
                                                           threshold)),
                             threshold)
    ELSE -1

InitMergeLoop == InitFunction(StageSteps)

\* the guard on the length, and the initialisation of result and i
MergeStart ==
    /\ pc = "input"
    /\ IF Len(points_in) < 3
       THEN /\ out_twice' = points_in
            /\ pc' = "returned"
            /\ UNCHANGED out_once
       ELSE /\ out_once' = [i |-> 1, result |-> <<points_in[1]>>, diverge_idx |-> -1]
            /\ pc' = "scanning"
            /\ UNCHANGED out_twice
    /\ UNCHANGED <<points_in, pipeline_vars>>

\* one iteration of the while loop: i += diverge_idx and continue, or append the
\* current point and i += 1
MergeIteration ==
    /\ pc = "scanning"
    /\ out_once.i < Len(points_in)
    /\ LET diverge_idx == DivergeIdx(points_in, out_once.i, out_once.result,
                                     OverlapThreshold)
       IN  out_once' =
              IF diverge_idx # -1
              THEN [i |-> out_once.i + diverge_idx, result |-> out_once.result,
                    diverge_idx |-> diverge_idx]
              ELSE [i |-> out_once.i + 1,
                    result |-> Append(out_once.result, points_in[out_once.i + 1]),
                    diverge_idx |-> diverge_idx]
    /\ UNCHANGED <<pc, points_in, out_twice, pipeline_vars>>

\* the loop condition fails: return np.array(result)
MergeReturn ==
    /\ pc = "scanning"
    /\ out_once.i >= Len(points_in)
    /\ out_twice' = out_once.result
    /\ pc' = "returned"
    /\ UNCHANGED <<points_in, out_once, pipeline_vars>>

NextMergeLoop == MergeStart \/ MergeIteration \/ MergeReturn

\* the interpreter goes on running the loop as long as it has a step to take
SpecMergeLoop == InitMergeLoop /\ [][NextMergeLoop]_vars /\ WF_vars(NextMergeLoop)

(* snap_to_lines, twice; a call that raises ends the run *)

InitSnap == InitFunction(SnapSteps)

SnapOnce ==
    /\ pc = "input"
    /\ IF SnapRaises(points_in)
       THEN pc' = "raised" /\ UNCHANGED out_once
       ELSE pc' = "once" /\ out_once' = SnapToLines(points_in, SnapEpsilon, PointSpacing)
    /\ UNCHANGED <<points_in, out_twice, pipeline_vars>>

SnapTwice ==
    /\ pc = "once"
    /\ IF SnapRaises(out_once)
       THEN pc' = "raised" /\ UNCHANGED out_twice
       ELSE pc' = "twice" /\ out_twice' = SnapToLines(out_once, SnapEpsilon, PointSpacing)
    /\ UNCHANGED <<points_in, out_once, pipeline_vars>>

NextSnap == SnapOnce \/ SnapTwice

SpecSnap == InitSnap /\ [][NextSnap]_vars

(* extract_path_nodes with a junction list of the caller, and build_path_graph *)

InitNodes == InitFunction(NodeSteps)

\* the junction lists handed to extract_path_nodes: up to two indices of the polyline
JunctionLists(positions) ==
    {<< >>}
        \cup {<<i>> : i \in 0 .. Len(positions) - 1}
        \cup {<<i, j>> : i \in 0 .. Len(positions) - 1, j \in 0 .. Len(positions) - 1}

ExtractNodes ==
    /\ pc = "input"
    /\ \E junctions \in JunctionLists(points_in) :
          out_once' = ExtractPathNodes(points_in, junctions, 1)
    /\ pc' = "nodes"
    /\ UNCHANGED <<points_in, out_twice, pipeline_vars>>

BuildNodes ==
    /\ pc = "input"
    /\ out_once' = BuildPathGraph(points_in, 1)[1]
    /\ pc' = "graph"
    /\ UNCHANGED <<points_in, out_twice, pipeline_vars>>

NextNodes == ExtractNodes \/ BuildNodes

SpecNodes == InitNodes /\ [][NextNodes]_vars

-----------------------------------------------------------------------------
(* snap_to_lines on a floor, then build_path_graph on its result, as in Steps 5 *)
(* and 7 of process_path_async                                                  *)

\* short and long steps, a turn, a jump wider than the gap threshold, and the
\* steps of a walk that winds to and fro
GraphSteps ==
    {<<300, 0, 0>>, <<1200, 0, 0>>, <<0, 1200, 0>>, <<6000, 0, 0>>,
     <<-1200, 700, 0>>, <<800, 0, 0>>, <<1200, 700, 0>>}

InitGraph == InitFunction(GraphSteps)

SnapFloor ==
    /\ pc = "input"
    /\ IF SnapRaises(points_in)
       THEN pc' = "raised" /\ UNCHANGED out_once
       ELSE pc' = "snapped" /\ out_once' = SnapToLines(points_in, SnapEpsilon, PointSpacing)
    /\ UNCHANGED <<points_in, out_twice, pipeline_vars>>

BuildFloorGraph ==
    /\ pc = "snapped"
    /\ out_twice' = [junctions |-> DetectJunctions(out_once),
                     nodes |-> BuildPathGraph(out_once, 1)[1],
                     edges |-> BuildPathGraph(out_once, 1)[2]]
    /\ pc' = "graph"
    /\ UNCHANGED <<points_in, out_once, pipeline_vars>>

NextGraph == SnapFloor \/ BuildFloorGraph

SpecGraph == InitGraph /\ [][NextGraph]_vars

(* simplify_path_rdp followed by _interpolate_between_vertices, as in the loop *)
(* of snap_to_lines over one segment                                            *)

InterpSteps ==
    {<<0, 0, 0>>, <<300, 0, 0>>, <<700, 400, 0>>, <<0, 1250, 0>>, <<-1000, 0, 100>>}

InitInterp == InitFunction(InterpSteps)

Simplify ==
    /\ pc = "input"
    /\ Len(points_in) >= 2
    /\ out_once' = SimplifyPathRdp(points_in, SnapEpsilon)
    /\ pc' = "vertices"
    /\ UNCHANGED <<points_in, out_twice, pipeline_vars>>

Interpolate ==
    /\ pc = "vertices"
    /\ Len(out_once) >= 2
    /\ out_twice' = InterpolateBetweenVertices(out_once, PointSpacing)
    /\ pc' = "interpolated"
    /\ UNCHANGED <<points_in, out_once, pipeline_vars>>

NextInterp == Simplify \/ Interpolate

SpecInterp == InitInterp /\ [][NextInterp]_vars

-----------------------------------------------------------------------------
(* The two stages of the deduplicator on a corridor walked out and back:        *)
(* merge_overlapping_segments, then deduplicate_path, as in Step 4.            *)

MaxCount == 20

\* the step lengths of a walk (millimetres); all are below the overlap threshold
WalkSteps == {250, 500, 625}

\* the point at distance d from the origin along axis (1 = x, 2 = y)
AlongAxis(axis, d) == [c \in 1 .. 3 |-> IF c = axis THEN d ELSE 0]

\* count steps of length step out along the axis, and the same steps back
OutAndBack(axis, step, count) ==
    [k \in 1 .. 2 * count + 1 |->
        AlongAxis(axis, step * (IF k <= count + 1 THEN k - 1 ELSE 2 * count + 1 - k))]

InitRoundTrip ==
    /\ \E axis \in 1 .. 2, step \in WalkSteps, count \in 1 .. MaxCount :
          points_in = OutAndBack(axis, step, count)
    /\ pc = "input"
    /\ out_once = << >>
    /\ out_twice = << >>
    /\ node_table = << >>
    /\ raw_positions = << >>
    /\ vertical_passages = << >>
    /\ stair_mask = << >>
    /\ floors_data = << >>
    /\ deduplicated_floors = << >>
    /\ smoothed_floors = << >>
    /\ all_nodes = << >>
    /\ all_edges = << >>
    /\ job_result = << >>
    /\ args_before = << >>
    /\ args_after = << >>
    /\ processing_jobs = << >>
    /\ job_locals = << >>

MergeStage ==
    /\ pc = "input"
    /\ out_once' = MergeOverlappingSegments(points_in, OverlapThreshold)
    /\ pc' = "merged"
    /\ UNCHANGED <<points_in, out_twice, pipeline_vars>>

DedupStage ==
    /\ pc = "merged"
    /\ out_twice' = DeduplicatePath(out_once, DistanceThreshold)
    /\ pc' = "deduplicated"
    /\ UNCHANGED <<points_in, out_once, pipeline_vars>>

NextRoundTrip == MergeStage \/ DedupStage

SpecRoundTrip == InitRoundTrip /\ [][NextRoundTrip]_vars

-----------------------------------------------------------------------------
(* merge_floor_graphs on floor graphs and passages that carry entry_point and   *)
(* exit_point; the passages get their floors from assign_floors_to_stairs.      *)

MaxFloors == 2

MaxPassages == 2

\* floor f lies DEFAULT_FLOOR_HEIGHT above floor f - 1; its polyline is a corridor
\* along x with a point every PointSpacing
CorridorOf(f, points) ==
    [i \in 1 .. points |-> <<(i - 1) * PointSpacing, 0, (f - 1) * DEFAULT_FLOOR_HEIGHT>>]

\* floors_data[f] as far as assign_floors_to_stairs reads it: z_mean
FloorDataOf(f, points) ==
    [z_sum |-> points * (f - 1) * DEFAULT_FLOOR_HEIGHT, point_count |-> points]

\* a passage between two heights, with the points where it is entered and left
PassageBetween(z_start, z_end, x_entry, x_exit, passage_type) ==
    [type |-> passage_type,
     z_start |-> z_start,
     z_end |-> z_end,
     z_displacement |-> Abs(z_end - z_start),
     direction |-> IF z_end > z_start THEN "UP" ELSE "DOWN",
     entry_point |-> [x |-> x_entry, y |-> 0, z |-> z_start],
     exit_point |-> [x |-> x_exit, y |-> 0, z |-> z_end]]

PassageMenu ==
    {PassageBetween(z_start, z_end, x_entry, x_exit, passage_type) :
        z_start \in {0, 1500, 3000}, z_end \in {0, 1500, 3000},
        x_entry \in {0, 2000}, x_exit \in {0, 2000},
        passage_type \in {"STAIRCASE", "ELEVATOR"}}

PassageLists ==
    UNION {[1 .. k -> {p \in PassageMenu : p.z_displacement >= MIN_TOTAL_Z_CHANGE}] :
              k \in 0 .. MaxPassages}

InitMerge ==
    /\ pc = "input"
    /\ \E floors \in 0 .. MaxFloors, points \in {3, 5}, passages \in PassageLists :
          points_in = [floors_data |-> [f \in 1 .. floors |-> FloorDataOf(f, points)],
                       polylines |-> [f \in 1 .. floors |-> CorridorOf(f, points)],
                       stair_segments |-> passages]
    /\ out_once = << >>
    /\ out_twice = << >>
    /\ node_table = << >>
    /\ raw_positions = << >>
    /\ vertical_passages = << >>
    /\ stair_mask = << >>
    /\ floors_data = << >>
    /\ deduplicated_floors = << >>
    /\ smoothed_floors = << >>
    /\ all_nodes = << >>
    /\ all_edges = << >>
    /\ job_result = << >>
    /\ args_before = << >>
    /\ args_after = << >>
    /\ processing_jobs = << >>
    /\ job_locals = << >>

\* Step 3: assign_floors_to_stairs
AssignFloors ==
    /\ pc = "input"
    /\ out_once' = AssignFloorsToStairs(points_in.stair_segments, points_in.floors_data)
    /\ pc' = "assigned"
    /\ UNCHANGED <<points_in, out_twice, pipeline_vars>>

\* Step 7: build_path_graph for every floor, then merge_floor_graphs
MergeGraphs ==
    /\ pc = "assigned"
    /\ out_twice' =
          MergeFloorGraphs([f \in 1 .. Len(points_in.polylines) |->
                               BuildPathGraph(points_in.polylines[f], f)],
                           out_once)
    /\ pc' = "merged"
    /\ UNCHANGED <<points_in, out_once, pipeline_vars>>

NextMerge == AssignFloors \/ MergeGraphs

SpecMerge == InitMerge /\ [][NextMerge]_vars

-----------------------------------------------------------------------------
(* _cluster_z_values on heights spread thinly over many floors, so that no bin  *)
(* of the smoothed histogram reaches 3 % of the points, and on heights that      *)
(* gather on floors.                                                            *)

MaxRange == 33

\* the heights z, z + step, ... below top, and top
RECURSIVE Ramp(_, _, _)
Ramp(z, step, top) ==
    IF z >= top THEN <<top>> ELSE <<z>> \o Ramp(z + step, step, top)

\* heights in millimetres: a ramp from 0 to a top between 3 m and MaxRange metres
ZInputs ==
    {Ramp(0, step, top * Metre) :
        step \in {500, 1000, 1500, 2000}, top \in 3 .. MaxRange}

InitCluster ==
    /\ pc = "input"
    /\ points_in \in ZInputs
    /\ out_once = << >>
    /\ out_twice = << >>
    /\ node_table = << >>
    /\ raw_positions = << >>
    /\ vertical_passages = << >>
    /\ stair_mask = << >>
    /\ floors_data = << >>
    /\ deduplicated_floors = << >>
    /\ smoothed_floors = << >>
    /\ all_nodes = << >>
    /\ all_edges = << >>
    /\ job_result = << >>
    /\ args_before = << >>
    /\ args_after = << >>
    /\ processing_jobs = << >>
    /\ job_locals = << >>

\* Step 3 of _cluster_z_values: _find_histogram_peaks on the smoothed histogram
FindPeaks ==
    /\ pc = "input"
    /\ LET z_min == SeqMin(points_in)
           z_range == SeqMax(points_in) - z_min
           smoothed == SmoothedHist(Histogram(points_in, z_min, z_range,
                                              NumBins(z_range)))
       IN  out_once' = FindHistogramPeaks(smoothed, Len(points_in), z_min, z_range,
                                          DEFAULT_FLOOR_HEIGHT)
    /\ pc' = "peaks"
    /\ UNCHANGED <<points_in, out_twice, pipeline_vars>>

\* the rest of _cluster_z_values: the fallback peaks if none was found, and the
\* level of every height
ClusterZ ==
    /\ pc = "peaks"
    /\ out_twice' = [peaks |-> ClusterPeaks(points_in, DEFAULT_FLOOR_HEIGHT),
                     levels |-> ClusterZValues(points_in, DEFAULT_FLOOR_HEIGHT)]
    /\ pc' = "clustered"
    /\ UNCHANGED <<points_in, out_once, pipeline_vars>>

NextCluster == FindPeaks \/ ClusterZ

SpecCluster == InitCluster /\ [][NextCluster]_vars

-----------------------------------------------------------------------------
(* Several jobs: start_processing creates an entry of processing_jobs and       *)
(* schedules process_path_async, whose runs interleave at their await points.   *)

MaxJobs == 2

JobIds == 1 .. MaxJobs

\* the files of the jobs: a corridor, a walk that makes snap_to_lines raise, and
\* a file without poses
JobFiles ==
    { PoseRows(Trajectory(<<Leg(15, 300, 0, 0, FALSE, 0)>>, 1, <<0, 0, 0>>)),
      PoseRows(Trajectory(<<Leg(15, 300, 0, 0, TRUE, 0), Leg(1, 6000, 0, 0, FALSE, 0),
                            Leg(1, 6000, 0, 0, FALSE, 0)>>, 1, <<0, 0, 0>>)),
      << >> }

\* the ProcessingJob start_processing stores
NewJob == [status |-> "PENDING", progress |-> 0, result |-> << >>]

\* the local variables of a run of process_path_async that has not started
NewRun(file) ==
    [pc |-> "start", file |-> file, job |-> NewJob,
     raw_positions |-> << >>, vertical_passages |-> << >>, stair_mask |-> << >>,
     floors_data |-> << >>, deduplicated_floors |-> << >>, smoothed_floors |-> << >>,
     all_nodes |-> << >>, all_edges |-> << >>]

\* an except branch that also put the progress back to 0
Fails_ProgressReset(run) ==
    [run EXCEPT !.pc = "done",
                !.job = [run.job EXCEPT !.status = "FAILED", !.progress = 0]]

\* the except branch: job.status = "FAILED"; progress and result stay as they are
Fails(run) ==
    [run EXCEPT !.pc = "done", !.job = [run.job EXCEPT !.status = "FAILED"]]

\* a run from one await to the next: the value of its local variables, and of the
\* fields it has assigned to its job, when it is suspended again
AfterAwait(run) ==
    CASE run.pc = "start" ->
            [run EXCEPT !.pc = "extracting",
                        !.job = [run.job EXCEPT !.status = "PROCESSING", !.progress = 5]]
      [] run.pc = "extracting" ->
            IF ExtractRaises(run.file) THEN Fails(run)
            ELSE [run EXCEPT !.pc = "detecting",
                             !.raw_positions = ExtractTrajectoryFromDb(run.file).positions,
                             !.job = [run.job EXCEPT !.progress = 15]]
      [] run.pc = "detecting" ->
            [run EXCEPT !.pc = "separating",
                        !.vertical_passages = DetectStairsFirst(run.raw_positions)[1],
                        !.stair_mask = DetectStairsFirst(run.raw_positions)[2],
                        !.job = [run.job EXCEPT !.progress = 30]]
      [] run.pc = "separating" ->
            LET floors == SeparateFloors(run.raw_positions, run.stair_mask)
            IN  [run EXCEPT !.pc = "deduplicating",
                            !.floors_data = floors,
                            !.vertical_passages =
                                AssignFloorsToStairs(run.vertical_passages, floors),
                            !.job = [run.job EXCEPT !.progress = 40]]
      [] run.pc = "deduplicating" ->
            [run EXCEPT !.pc = "snapping",
                        !.deduplicated_floors =
                            [f \in DOMAIN run.floors_data |->
                                DeduplicatePath(
                                    MergeOverlappingSegments(
                                        RemoveOutliers(run.floors_data[f].positions),
                                        OverlapThreshold),
                                    DistanceThreshold)],
                        !.job = [run.job EXCEPT !.progress = 55]]
      [] run.pc = "snapping" ->
            IF \E f \in DOMAIN run.deduplicated_floors :
                  SnapRaises(run.deduplicated_floors[f])
            THEN Fails(run)
            ELSE [run EXCEPT !.pc = "building",
                             !.smoothed_floors =
                                 [f \in DOMAIN run.deduplicated_floors |->
                                     SnapToLines(run.deduplicated_floors[f],
                                                 SnapEpsilon, PointSpacing)],
                             !.job = [run.job EXCEPT !.progress = 75]]
      [] run.pc = "building" ->
            LET merged == MergeFloorGraphs(
                              [f \in 1 .. Len(run.smoothed_floors) |->
                                  BuildPathGraph(run.smoothed_floors[f], f)],
                              run.vertical_passages)
            IN  [run EXCEPT !.pc = "previewing",
                            !.all_nodes = merged[1],
                            !.all_edges = merged[2],
                            !.job = [run.job EXCEPT !.progress = 88]]
      [] run.pc = "previewing" ->
            [run EXCEPT !.pc = "done",
                        !.job = [status |-> "COMPLETED", progress |-> 100,
                                 result |->
                                    BuildProcessingResult(
                                        run.raw_positions, run.smoothed_floors,
                                        run.vertical_passages, run.all_nodes,
                                        run.all_edges,
                                        GetTrajectoryStats(run.raw_positions),
                                        GetGraphStats(run.all_nodes, run.all_edges))]]

\* asyncio.to_thread(_generate_preview_images, ...): the worker thread of a run
\* at "previewing" draws with pyplot, whose current figure and figure registry
\* belong to the process; the threads of two such runs use them unsynchronised
PreviewsOverlap(job_id) ==
    /\ job_locals[job_id].pc = "previewing"
    /\ \E other \in DOMAIN job_locals :
          other # job_id /\ job_locals[other].pc = "previewing"

\* what a suspended run can be when it is suspended next, or done: the stage
\* returns or raises as its code says; drawing in a thread that races with
\* another drawing thread returns or raises an exception of the plotting library
Resumptions(job_id) ==
    {AfterAwait(job_locals[job_id])}
        \cup (IF PreviewsOverlap(job_id) THEN {Fails(job_locals[job_id])} ELSE {})

\* job = processing_jobs[job_id]: the entry a run writes to
JobEntry(job_id) == job_id

InitJobs ==
    /\ pc = "serving"
    /\ processing_jobs = << >>
    /\ job_locals = << >>
    /\ node_table = << >>
    /\ raw_positions = << >>
    /\ vertical_passages = << >>
    /\ stair_mask = << >>
    /\ floors_data = << >>
    /\ deduplicated_floors = << >>
    /\ smoothed_floors = << >>
    /\ all_nodes = << >>
    /\ all_edges = << >>
    /\ job_result = << >>
    /\ args_before = << >>
    /\ args_after = << >>
    /\ points_in = << >>
    /\ out_once = << >>
    /\ out_twice = << >>

\* start_processing: a new job_id, its entry, and the background task
StartProcessing ==
    /\ Len(processing_jobs) < MaxJobs
    /\ \E file \in JobFiles :
          /\ processing_jobs' = Append(processing_jobs, NewJob)
          /\ job_locals' = Append(job_locals, NewRun(file))
    /\ UNCHANGED <<pc, node_table, raw_positions, vertical_passages, stair_mask,
                   floors_data, deduplicated_floors, smoothed_floors, all_nodes,
                   all_edges, job_result, args_before, args_after, function_vars>>

\* process_path_async of job_id runs from one await to the next
RunJob ==
    /\ \E job_id \in DOMAIN job_locals :
          /\ job_locals[job_id].pc # "done"
          /\ \E run \in Resumptions(job_id) :
                /\ job_locals' = [job_locals EXCEPT ![job_id] = run]
                /\ processing_jobs' =
                      [processing_jobs EXCEPT ![JobEntry(job_id)] = run.job]
    /\ UNCHANGED <<pc, node_table, raw_positions, vertical_passages, stair_mask,
                   floors_data, deduplicated_floors, smoothed_floors, all_nodes,
                   all_edges, job_result, args_before, args_after, function_vars>>

NextJobs == StartProcessing \/ RunJob

SpecJobs == InitJobs /\ [][NextJobs]_vars

-----------------------------------------------------------------------------
(* Properties of the pipeline (specification Spec) *)

\* the passages exist from Step 2 on, the floors from Step 3 on, the graph after Step 7
Detected == pc \notin {"PENDING", "extracted"} /\ raw_positions # << >>
Separated == pc \notin {"PENDING", "extracted", "detected"} /\ raw_positions # << >>
GraphBuilt == pc \in {"graph_built", "COMPLETED"}

FloorHasNode(floor_level) ==
    \E n \in 1 .. Len(all_nodes) : all_nodes[n].floor_level = floor_level

\* the edge C1 asks for: between the from_floor node nearest the first position of
\* the passage and the to_floor node nearest its last position
VerticalEdgeOf(passage) ==
    PathEdge(NearestScan(all_nodes, raw_positions[passage.start_idx + 1],
                         passage.from_floor, 1, << >>)[1],
             NearestScan(all_nodes, raw_positions[passage.end_idx],
                         passage.to_floor, 1, << >>)[1],
             passage.z_displacement,
             IF passage.type = "ELEVATOR" THEN "VERTICAL_ELEVATOR"
             ELSE "VERTICAL_STAIRCASE")

\* C1: once the graph is merged, every passage whose from_floor and to_floor both
\* have a node has exactly one edge in the merged edge list that is bidirectional,
\* has the passage's z_displacement as distance, the VERTICAL_ type of the passage,
\* and joins the nearest from_floor node to the nearest to_floor node.
C1_VerticalEdgePerPassage ==
    GraphBuilt =>
        \A k \in 1 .. Len(vertical_passages) :
            (FloorHasNode(vertical_passages[k].from_floor)
                /\ FloorHasNode(vertical_passages[k].to_floor))
            => Cardinality({e \in 1 .. Len(all_edges) :
                              all_edges[e] = VerticalEdgeOf(vertical_passages[k])}) = 1

\* C2: every passage returned by detect_stairs_first, merged ones included, rises
\* or falls by at least MIN_TOTAL_Z_CHANGE between the first and the last point of
\* its range and spans at least MIN_STAIR_POINTS indices.
C2_PassageMinima ==
    Detected =>
        \A k \in 1 .. Len(vertical_passages) :
            LET passage == vertical_passages[k]
            IN  /\ Abs(raw_positions[passage.end_idx][3]
                        - raw_positions[passage.start_idx + 1][3]) >= MIN_TOTAL_Z_CHANGE
                /\ passage.end_idx - passage.start_idx >= MIN_STAIR_POINTS

\* the original indices backing a floor, as a set
FloorIndexSet(f) == {floors_data[f].indices[m] : m \in 1 .. Len(floors_data[f].indices)}

\* C3: the index sets backing the floors of separate_floors are pairwise disjoint
\* and none contains an index at which the mask of detect_stairs_first is True.
C3_FloorsDisjoint ==
    Separated =>
        /\ \A f, g \in DOMAIN floors_data :
              f # g => FloorIndexSet(f) \cap FloorIndexSet(g) = {}
        /\ \A f \in DOMAIN floors_data :
              \A i \in FloorIndexSet(f) : ~stair_mask[i + 1]

\* C3 witness: two floors were separated around a masked passage
C3_Witness ==
    /\ Separated
    /\ Cardinality(DOMAIN floors_data) >= 2
    /\ \E i \in 1 .. Len(stair_mask) : stair_mask[i]

\* C4: every index in the range [start_idx, end_idx) of every returned passage is
\* True in the returned mask, also for a passage merged from two runs across a gap.
C4_PassageMasked ==
    Detected =>
        \A k \in 1 .. Len(vertical_passages) :
            \A i \in vertical_passages[k].start_idx .. vertical_passages[k].end_idx - 1 :
                stair_mask[i + 1]

\* C5: the floor levels are exactly 1..K and z_mean does not decrease with the
\* level, also when a cluster of fewer than MIN_POINTS_PER_FLOOR points was dropped
\* between two surviving ones.
C5_LevelsAscending ==
    Separated =>
        /\ DOMAIN floors_data = 1 .. Cardinality(DOMAIN floors_data)
        /\ \A f, g \in DOMAIN floors_data :
              f < g => floors_data[f].z_sum * floors_data[g].point_count
                         <= floors_data[g].z_sum * floors_data[f].point_count

\* the indices of the points separate_floors is handed (mask False), as a set
UnmaskedIndices == {i \in 0 .. Len(stair_mask) - 1 : ~stair_mask[i + 1]}

\* C5 witness: two floors survive and some unmasked point lies strictly between
\* them in height and belongs to neither (its cluster was dropped)
C5_Witness ==
    /\ Separated
    /\ DOMAIN floors_data = {1, 2}
    /\ \E i \in UnmaskedIndices :
          /\ i \notin FloorIndexSet(1) \cup FloorIndexSet(2)
          /\ raw_positions[i + 1][3] > floors_data[1].z_max
          /\ raw_positions[i + 1][3] < floors_data[2].z_min

\* C6: when the points handed to separate_floors are non-empty and span less than
\* FLOOR_HEIGHT (3 m) in z, exactly one floor, level 1, holding all of them, is
\* returned.
C6_SingleFloor ==
    (Separated
        /\ UnmaskedIndices # {}
        /\ \A i, j \in UnmaskedIndices :
              raw_positions[i + 1][3] - raw_positions[j + 1][3] < DEFAULT_FLOOR_HEIGHT)
    => /\ DOMAIN floors_data = {1}
       /\ FloorIndexSet(1) = UnmaskedIndices

-----------------------------------------------------------------------------
(* Properties of the functions on their own *)

\* C7: the original_index values of the nodes of extract_path_nodes and of
\* build_path_graph increase strictly in emission order (specification SpecNodes).
C7_NodeIndicesIncrease ==
    pc \in {"nodes", "graph"} =>
        \A k \in 1 .. Len(out_once) - 1 :
            out_once[k].original_index < out_once[k + 1].original_index

\* C7 witness: a junction was emitted right before the final endpoint
C7_Witness ==
    /\ pc = "nodes"
    /\ Len(out_once) >= 3
    /\ out_once[Len(out_once) - 1].node_type = "JUNCTION"
    /\ out_once[Len(out_once) - 1].original_index = Len(points_in) - 2

\* C9: the deduplicator applied to its own output returns that output
\* (specification SpecDedup).
C9_DedupIdempotent ==
    pc = "twice" => out_twice = out_once

\* two point sequences with the same points to within the millimetre
SamePoints(a, b) ==
    /\ Len(a) = Len(b)
    /\ \A k \in 1 .. Len(a) : \A c \in 1 .. 3 : Abs(a[k][c] - b[k][c]) <= 1

\* C10: snap_to_lines applied to its own output returns the same points
\* (specification SpecSnap).
C10_SnapIdempotent ==
    pc = "twice" => SamePoints(out_twice, out_once)

-----------------------------------------------------------------------------
(* Properties of the interpolation (specification SpecInterp) *)

\* the number n of equal intervals a segment of squared length length2 > 0 is cut
\* into: the n with (n - 1) * 0.5 < L <= n * 0.5
IntervalsOf(length2) ==
    CHOOSE n \in 1 .. ISqrt(length2) \div PointSpacing + 1 :
        /\ ((n - 1) * PointSpacing) * ((n - 1) * PointSpacing) < length2
        /\ length2 <= (n * PointSpacing) * (n * PointSpacing)

\* the position in the output (1-based) at which vertex i (0-based) is emitted
RECURSIVE EmittedAt(_, _)
EmittedAt(vertices, i) ==
    IF i = 0 THEN 1
    ELSE EmittedAt(vertices, i - 1)
           + (IF Dist2(vertices[i], vertices[i + 1]) = 0 THEN 0
              ELSE IntervalsOf(Dist2(vertices[i], vertices[i + 1])))

\* point is start + (j / n) * (end - start), rounded down to the millimetre
AtFraction(point, start, end, j, n) ==
    \A c \in 1 .. 3 :
        /\ n * (point[c] - start[c]) <= j * (end[c] - start[c])
        /\ j * (end[c] - start[c]) < n * (point[c] - start[c]) + n

\* C11: for every pair of consecutive RDP vertices at distance L > 0 the output of
\* _interpolate_between_vertices holds the first vertex, then ceil(L / 0.5) points
\* at the fractions j / n of the segment, the last of them the second vertex; the
\* output holds nothing else, and consecutive points of a segment are distinct and
\* at most 0.5 m (plus the millimetre rounding) apart.
C11_UniformSpacing ==
    pc = "interpolated" =>
        /\ out_twice[1] = out_once[1]
        /\ Len(out_twice) = EmittedAt(out_once, Len(out_once) - 1)
        /\ \A i \in 0 .. Len(out_once) - 2 :
              Dist2(out_once[i + 1], out_once[i + 2]) > 0 =>
                 LET n == IntervalsOf(Dist2(out_once[i + 1], out_once[i + 2]))
                     at == EmittedAt(out_once, i)
                 IN  /\ out_twice[at] = out_once[i + 1]
                     /\ out_twice[at + n] = out_once[i + 2]
                     /\ \A j \in 1 .. n :
                           /\ AtFraction(out_twice[at + j], out_once[i + 1],
                                         out_once[i + 2], j, n)
                           /\ out_twice[at + j] # out_twice[at + j - 1]
                           /\ Dist2(out_twice[at + j], out_twice[at + j - 1])
                                <= (PointSpacing + 2) * (PointSpacing + 2)

\* C11 witness: three or more vertices, a join between two segments of positive
\* length, one of them cut into three or more intervals of less than 0.5 m
C11_Witness ==
    /\ pc = "interpolated"
    /\ Len(out_once) >= 3
    /\ \E i \in 0 .. Len(out_once) - 3 :
          /\ Dist2(out_once[i + 1], out_once[i + 2]) > 0
          /\ Dist2(out_once[i + 2], out_once[i + 3]) > 0
          /\ IntervalsOf(Dist2(out_once[i + 1], out_once[i + 2])) >= 3
          /\ Dist2(out_once[i + 1], out_once[i + 2])
               < (IntervalsOf(Dist2(out_once[i + 1], out_once[i + 2])) * PointSpacing)
                   * (IntervalsOf(Dist2(out_once[i + 1], out_once[i + 2])) * PointSpacing)

-----------------------------------------------------------------------------
(* Properties of the deduplicator on a round trip (specification SpecRoundTrip) *)

\* the walk goes from x = 0 straight to x = 5 m and back along the same line
CorridorAndBack(positions) ==
    /\ Len(positions) >= 3
    /\ Len(positions) % 2 = 1
    /\ positions[1] = <<0, 0, 0>>
    /\ positions[(Len(positions) + 1) \div 2] = <<5 * Metre, 0, 0>>
    /\ \A k \in 1 .. Len(positions) :
          /\ positions[k] = positions[Len(positions) + 1 - k]
          /\ positions[k][2] = 0 /\ positions[k][3] = 0
    /\ \A k \in 1 .. (Len(positions) - 1) \div 2 :
          positions[k][1] < positions[k + 1][1]

\* C12: on a walk from x = 0 straight to x = 5 m and back, Stage 1 emits points of
\* the outbound leg only: its output runs from x = 0 to x = 5 m with x strictly
\* increasing (so its length is 5 m), and no point of the return leg follows.
C12_OutboundOnly ==
    (pc # "input" /\ CorridorAndBack(points_in)) =>
        /\ out_once[1] = <<0, 0, 0>>
        /\ out_once[Len(out_once)] = <<5 * Metre, 0, 0>>
        /\ \A k \in 1 .. Len(out_once) - 1 : out_once[k][1] < out_once[k + 1][1]

-----------------------------------------------------------------------------
(* Properties of the finished job (specification Spec) *)

Finished == pc \in {"COMPLETED", "FAILED"}

HorizontalEdges(edges) ==
    {e \in 1 .. Len(edges) : edges[e].edge_type = "HORIZONTAL"}

\* C13: the job on the 5-point corridor of scenario S1 completes with exactly one
\* floor, exactly two ENDPOINT nodes and exactly one HORIZONTAL edge, whose
\* distance is 3.0 m to within 0.1 m.
C13_ScenarioS1 ==
    (Finished /\ node_table = PoseRows(ScenarioS1)) =>
        /\ pc = "COMPLETED"
        /\ Len(job_result.floor_paths) = 1
        /\ TypeCount(job_result.path_nodes, "ENDPOINT") = 2
        /\ Cardinality(HorizontalEdges(job_result.path_edges)) = 1
        /\ \A e \in HorizontalEdges(job_result.path_edges) :
              Abs(job_result.path_edges[e].distance - 3 * Metre) <= Metre \div 10

\* the sum of the distances of the HORIZONTAL edges
HorizontalDistance(edges) ==
    SumSeq([e \in 1 .. Len(edges) |->
              IF edges[e].edge_type = "HORIZONTAL" THEN edges[e].distance ELSE 0])

\* C14: in the result of a completed job, total_distance is the sum of the
\* distances of the HORIZONTAL edges of path_edges.
C14_TotalDistance ==
    pc = "COMPLETED" =>
        job_result.total_distance = HorizontalDistance(job_result.path_edges)

\* the passages one of whose floors has no node in the merged graph
PassagesWithoutNode ==
    {k \in 1 .. Len(vertical_passages) :
        \/ ~FloorHasNode(vertical_passages[k].from_floor)
        \/ ~FloorHasNode(vertical_passages[k].to_floor)}

\* the per-floor graphs merge_floor_graphs was handed
FloorGraphOf(f) == BuildPathGraph(smoothed_floors[f], f)

\* the counts of the stats block
StatCounts(stats) ==
    {stats[key] : key \in {"total_nodes", "total_edges", "junction_count",
                           "endpoint_count"} \cap DOMAIN stats}

\* C15: when a passage's from_floor or to_floor has no graph node,
\* merge_floor_graphs returns exactly the nodes and edges of the floors (no edge
\* for the passage), the completed job's result carries them, and the number of
\* skipped passages is one of the counts of the result's stats block.
C15_SkippedPassage ==
    (GraphBuilt /\ PassagesWithoutNode # {}) =>
        /\ all_nodes
             = Concatenate([f \in 1 .. Len(smoothed_floors) |-> FloorGraphOf(f)[1]])
        /\ all_edges
             = Concatenate([f \in 1 .. Len(smoothed_floors) |-> FloorGraphOf(f)[2]])
        /\ pc = "COMPLETED" =>
              /\ job_result.path_nodes = all_nodes
              /\ job_result.path_edges = all_edges
              /\ Cardinality(PassagesWithoutNode) \in StatCounts(job_result.stats)

\* C16: when separate_floors returns no floor for a non-empty trajectory, the job
\* ends COMPLETED, not FAILED, and path_nodes, path_edges and floor_paths of its
\* result are empty.
C16_ZeroFloorsNonFatal ==
    (Finished /\ raw_positions # << >> /\ DOMAIN floors_data = {}) =>
        /\ pc = "COMPLETED"
        /\ job_result.path_nodes = << >>
        /\ job_result.path_edges = << >>
        /\ job_result.floor_paths = << >>

\* C16 witness: a completed job without floors whose trajectory was all vertical
C16_Witness ==
    /\ pc = "COMPLETED"
    /\ DOMAIN floors_data = {}
    /\ vertical_passages # << >>
    /\ \A i \in 1 .. Len(stair_mask) : stair_mask[i]

\* a completed job without floors whose only cluster was too small to make a floor
C16_WitnessSmallCluster ==
    /\ pc = "COMPLETED"
    /\ DOMAIN floors_data = {}
    /\ Len(raw_positions) >= 3
    /\ \A i \in 1 .. Len(stair_mask) : ~stair_mask[i]

\* the drop rules: blob absent, of a length other than 48, with a non-finite
\* component, or with a translation at the origin
Dropped(row) ==
    \/ row.size = 0
    \/ row.size # 48
    \/ row.nonfinite # {}
    \/ row.translation = <<0, 0, 0>>

SurvivingIds(table) ==
    {table[i].id : i \in {j \in 1 .. Len(table) : ~Dropped(table[j])}}

\* C17: extract_trajectory_from_db raises exactly when no row survives the drop
\* rules, and the job then ends FAILED without a result; otherwise it returns one
\* position per surviving row and as many node_ids, the ids of the surviving rows
\* in strictly ascending order.
C17_ExtractContract ==
    pc # "PENDING" =>
        IF SurvivingIds(node_table) = {}
        THEN pc = "FAILED" /\ job_result = << >> /\ raw_positions = << >>
        ELSE LET node_ids == ExtractTrajectoryFromDb(node_table).node_ids
             IN  /\ Len(raw_positions) = Cardinality(SurvivingIds(node_table))
                 /\ Len(node_ids) = Len(raw_positions)
                 /\ {node_ids[k] : k \in 1 .. Len(node_ids)} = SurvivingIds(node_table)
                 /\ \A k \in 1 .. Len(node_ids) - 1 : node_ids[k] < node_ids[k + 1]

\* C17 witness: a job that failed on a table of two rows dropped for different
\* reasons
C17_Witness ==
    /\ pc = "FAILED"
    /\ Len(node_table) = 2
    /\ node_table[1].size # node_table[2].size
    /\ SurvivingIds(node_table) = {}

\* a job that went on with two surviving rows stored out of the order of their ids
C17_WitnessReordered ==
    /\ pc = "extracted"
    /\ Len(node_table) = 2
    /\ node_table[1].id > node_table[2].id
    /\ Cardinality(SurvivingIds(node_table)) = 2

\* C18: when the calls of a step have returned, every array, list and dict handed
\* to them equals its value before the call.
C18_NoInputMutation ==
    args_after = args_before


\* process_path_async running alone on a file, after its first n awaits
RECURSIVE SoloRun(_, _)
SoloRun(file, n) ==
    IF n = 0 THEN NewRun(file)
    ELSE LET run == SoloRun(file, n - 1)
         IN  IF run.pc = "done" THEN run ELSE AfterAwait(run)

\* the number of awaits a run suspended at pc has passed; a finished run has
\* passed all the awaits it reaches
AwaitsPassed(run_pc) ==
    CASE run_pc = "start" -> 0
      [] run_pc = "extracting" -> 1
      [] run_pc = "detecting" -> 2
      [] run_pc = "separating" -> 3
      [] run_pc = "deduplicating" -> 4
      [] run_pc = "snapping" -> 5
      [] run_pc = "building" -> 6
      [] run_pc = "previewing" -> 7
      [] run_pc = "done" -> 8

C20_AtLeastTwoPoints ==
    /\ (pc = "merged" /\ Len(points_in) >= 2) =>
          /\ Len(out_once) >= 2
          /\ Len(points_in) < 3 => out_once = points_in
    /\ (pc = "deduplicated" /\ Len(points_in) >= 2) =>
          /\ Len(out_twice) >= 2
          /\ Len(UniquePositions(points_in, DistanceThreshold)) < 2 =>
                out_twice = points_in

\* deduplicate_path has fallen back on a sequence of several points that all lie
\* within the distance threshold of the first
C20_Witness ==
    /\ pc = "deduplicated"
    /\ Len(points_in) >= 3
    /\ \A i \in DOMAIN points_in :
          Dist2(points_in[1], points_in[i]) <= DistanceThreshold * DistanceThreshold
    /\ \E i \in DOMAIN points_in : points_in[i] # points_in[1]
    /\ out_twice = points_in

\* merge_overlapping_segments has removed a revisited stretch and kept 2 points or more
C20_WitnessMerged ==
    /\ pc = "merged"
    /\ Len(out_once) < Len(points_in)
    /\ Len(out_once) >= 2

\* the node of the merged graph with the given id
NodeWithId(nodes, id) == CHOOSE k \in 1 .. Len(nodes) : nodes[k].id = id

IsVertical(edge) == edge.edge_type \in {"VERTICAL_STAIRCASE", "VERTICAL_ELEVATOR"}

\* C21: every VERTICAL_ edge appended by merge_floor_graphs joins two nodes whose
\* floor_level values differ, also when from_floor equals to_floor; it never joins
\* two nodes of one floor and never a node to itself
C21_VerticalEdgeCrossesFloors ==
    pc = "merged" =>
        \A e \in 1 .. Len(out_twice[2]) :
            IsVertical(out_twice[2][e]) =>
                out_twice[1][NodeWithId(out_twice[1], out_twice[2][e].from_node_id)].floor_level
                    # out_twice[1][NodeWithId(out_twice[1], out_twice[2][e].to_node_id)].floor_level

\* C22: every passage returned by detect_stairs_first, a merged one included, has
\* direction UP exactly when its recorded z_end is above its recorded z_start, and
\* DOWN otherwise
C22_DirectionIsSign ==
    Detected =>
        \A k \in 1 .. Len(vertical_passages) :
            /\ vertical_passages[k].direction \in {"UP", "DOWN"}
            /\ vertical_passages[k].direction = "UP"
                  <=> vertical_passages[k].z_end > vertical_passages[k].z_start

\* the runs [start, end) that Step 2 of detect_stairs_first accepts, before merging
AcceptedRuns == StairRuns(raw_positions, ChangingZ(raw_positions), 0)

C23_WitnessMerged ==
    /\ Detected
    /\ \E k \in 1 .. Len(vertical_passages) :
          \E i \in vertical_passages[k].start_idx .. vertical_passages[k].end_idx - 1 :
             ~stair_mask[i + 1]

\* two passages of opposite directions next to each other
C23_WitnessOpposite ==
    /\ Detected
    /\ \E k \in 1 .. Len(vertical_passages) - 1 :
          vertical_passages[k].direction # vertical_passages[k + 1].direction

\* the points of positions at the indices of kept, in the order of the indices
RECURSIVE PointsAt(_, _, _)
PointsAt(positions, kept, i) ==
    IF i > Len(positions) THEN << >>
    ELSE IF i \in kept THEN <<positions[i]>> \o PointsAt(positions, kept, i + 1)
    ELSE PointsAt(positions, kept, i + 1)

\* C24: when deduplicate_path does not fall back on its input, its output is the
\* input restricted to a set of kept indices that holds the first index, in which
\* every two kept points are more than distance_threshold apart and every removed
\* point lies within distance_threshold of a kept point of smaller index
C24_DedupSubsequence ==
    (pc = "deduplicated" /\ ~DedupFallsBack(points_in, DistanceThreshold)
        /\ Len(points_in) >= 2) =>
        \E kept \in SUBSET (1 .. Len(points_in)) :
            /\ 1 \in kept
            /\ out_twice = PointsAt(points_in, kept, 1)
            /\ \A i, j \in kept :
                  i # j => Dist2(points_in[i], points_in[j])
                              > DistanceThreshold * DistanceThreshold
            /\ \A j \in (1 .. Len(points_in)) \ kept :
                  \E i \in kept :
                     /\ i < j
                     /\ Dist2(points_in[i], points_in[j])
                           <= DistanceThreshold * DistanceThreshold

\* deduplicate_path has removed a point at exactly distance_threshold from a kept
\* one and has returned fewer points than it was given
C24_Witness ==
    /\ pc = "deduplicated"
    /\ ~DedupFallsBack(points_in, DistanceThreshold)
    /\ 2 <= Len(out_twice)
    /\ Len(out_twice) < Len(points_in)
    /\ \E j \in 2 .. Len(points_in) :
          /\ \A k \in 1 .. Len(out_twice) : out_twice[k] # points_in[j]
          /\ \E k \in 1 .. Len(out_twice) :
                Dist2(out_twice[k], points_in[j]) = DistanceThreshold * DistanceThreshold

\* ceil(z_range / threshold) for heights in millimetres
CeilDiv(z_range, threshold) == (z_range + threshold - 1) \div threshold

\* the slab of z when [z_min, z_min + z_range] is cut into slabs equal parts
SlabOf(z, z_min, z_range, slabs) == Min2(((z - z_min) * slabs) \div z_range, slabs - 1)

\* C25: when no histogram peak survives in _cluster_z_values, the heights are
\* partitioned into exactly ceil((z_max - z_min) / FLOOR_HEIGHT) uniform slabs,
\* also when the range is an exact multiple of FLOOR_HEIGHT
C25_FallbackSlabs ==
    (pc = "clustered" /\ out_once = << >>) =>
        LET z_min == SeqMin(points_in)
            z_range == SeqMax(points_in) - z_min
            slabs == CeilDiv(z_range, DEFAULT_FLOOR_HEIGHT)
        IN  /\ Len(out_twice.peaks) = slabs
            /\ \A i \in 1 .. Len(points_in) :
                  /\ out_twice.levels[i] \in 0 .. slabs - 1
                  /\ out_twice.levels[i] = SlabOf(points_in[i], z_min, z_range, slabs)
                        \/ out_twice.levels[i] + 1
                              = SlabOf(points_in[i], z_min, z_range, slabs)

\* the 0-based indices at which a run of the polyline starts or ends: the first and
\* the last index, and the two sides of every gap wider than the gap threshold
RunBoundaries(positions) ==
    {0, Len(positions) - 1}
        \cup UNION {{k - 1, k} : k \in SplitIndices(positions, SnapGapThreshold)}

\* C26: of the nodes build_path_graph emits for a polyline of one or more runs, the
\* first and the last point of every run is an ENDPOINT, every detected junction
\* index is a JUNCTION, and every other node is a WAYPOINT at least NODE_SPACING
\* in a straight line from the node emitted before it
C26_NodeTypes ==
    (pc = "graph" /\ Len(out_once) >= 2) =>
        LET nodes == out_twice.nodes
            junction_indices == {out_twice.junctions[k] :
                                    k \in 1 .. Len(out_twice.junctions)}
        IN  /\ \A i \in RunBoundaries(out_once) :
                  \E k \in 1 .. Len(nodes) :
                     nodes[k].original_index = i /\ nodes[k].node_type = "ENDPOINT"
            /\ \A i \in junction_indices \ RunBoundaries(out_once) :
                  \E k \in 1 .. Len(nodes) :
                     nodes[k].original_index = i /\ nodes[k].node_type = "JUNCTION"
            /\ \A k \in 2 .. Len(nodes) :
                  nodes[k].original_index
                        \notin (RunBoundaries(out_once) \cup junction_indices) =>
                     /\ nodes[k].node_type = "WAYPOINT"
                     /\ Dist2(out_once[nodes[k].original_index + 1],
                              out_once[nodes[k - 1].original_index + 1])
                           >= NODE_SPACING * NODE_SPACING

\* whenever the iteration about to run has detected a revisit, the index that
\* _find_divergence_point returns is None or positive, so the iteration raises i
ScanAdvances ==
    (pc = "scanning" /\ out_once.i < Len(points_in)) =>
        DivergeIdx(points_in, out_once.i, out_once.result, OverlapThreshold) # 0

\* C27: merge_overlapping_segments terminates on every input: no iteration of its
\* loop leaves the scan index i where it is, because the divergence index is never
\* 0 after a detected revisit, and the call returns
C27_MergeTerminates == []ScanAdvances /\ <>(pc = "returned")

\* an iteration has detected a revisit and skipped ahead by the divergence index
C27_Witness ==
    /\ pc = "scanning"
    /\ out_once.diverge_idx >= 1
    /\ out_once.i < Len(points_in)

\* C28: on an input of 3 points or more snap_to_lines does not raise and returns a
\* polyline that is not empty and holds the first and the last point of every run
\* of the input between gaps, runs of a single point included
C28_SnapKeepsEveryRun ==
    (pc # "input" /\ Len(points_in) >= 3) =>
        /\ ~(pc = "raised" /\ out_once = << >>)
        /\ pc # "raised" =>
              /\ out_once # << >>
              /\ \A i \in RunBoundaries(points_in) :
                    \E k \in 1 .. Len(out_once) : out_once[k] = points_in[i + 1]

\* every two consecutive points are at most PointSpacing apart
GapFree(positions) ==
    \A k \in 1 .. Len(positions) - 1 :
        Dist2(positions[k], positions[k + 1]) <= PointSpacing * PointSpacing

\* C29: for a polyline whose consecutive points are at most 0.5 m apart, as
\* snap_to_lines returns it for one run, build_path_graph joins every two
\* index-consecutive nodes: there are as many HORIZONTAL edges as nodes minus 1,
\* and edge k joins node k to node k + 1
C29_ConnectedPath ==
    (pc = "graph" /\ Len(out_once) >= 2 /\ GapFree(out_once)) =>
        /\ Cardinality(HorizontalEdges(out_twice.edges)) = Len(out_twice.nodes) - 1
        /\ Len(out_twice.edges) = Len(out_twice.nodes) - 1
        /\ \A k \in 1 .. Len(out_twice.edges) :
              /\ out_twice.edges[k].from_node_id = out_twice.nodes[k].id
              /\ out_twice.edges[k].to_node_id = out_twice.nodes[k + 1].id

-----------------------------------------------------------------------------
(* The lifecycle of a job (specification SpecJobs) *)

\* get_job_result: the result of a COMPLETED job; any other status is answered 400
GetJobResult(job_id) ==
    IF processing_jobs[job_id].status # "COMPLETED" THEN "400"
    ELSE processing_jobs[job_id].result

\* the moves of job.status: PENDING, PROCESSING, then COMPLETED or FAILED
StatusMoves ==
    {<<"PENDING", "PROCESSING">>, <<"PROCESSING", "COMPLETED">>,
     <<"PROCESSING", "FAILED">>}

\* what another request handler sees of a job before and after a step
JobMoves(job_id) ==
    /\ \/ processing_jobs'[job_id].status = processing_jobs[job_id].status
       \/ <<processing_jobs[job_id].status, processing_jobs'[job_id].status>>
              \in StatusMoves
    /\ processing_jobs'[job_id].progress >= processing_jobs[job_id].progress

\* job.result is set exactly when the job is COMPLETED, and then the run is over
\* and the result is the one built from all of its stages
NoPartialOutput(job_id) ==
    /\ (DOMAIN processing_jobs[job_id].result # {})
           <=> (processing_jobs[job_id].status = "COMPLETED")
    /\ processing_jobs[job_id].status = "COMPLETED" =>
          /\ job_locals[job_id].pc = "done"
          /\ processing_jobs[job_id].progress = 100
          /\ GetJobResult(job_id) =
                BuildProcessingResult(
                    job_locals[job_id].raw_positions,
                    job_locals[job_id].smoothed_floors,
                    job_locals[job_id].vertical_passages,
                    job_locals[job_id].all_nodes, job_locals[job_id].all_edges,
                    GetTrajectoryStats(job_locals[job_id].raw_positions),
                    GetGraphStats(job_locals[job_id].all_nodes,
                                  job_locals[job_id].all_edges))
    /\ processing_jobs[job_id].status # "COMPLETED" => GetJobResult(job_id) = "400"

\* C30: wherever another request handler can run, the status of a job has only
\* moved PENDING -> PROCESSING -> (COMPLETED | FAILED), the last two are never
\* left, the progress has never decreased, and job.result is set exactly when
\* the status is COMPLETED, so get_job_result answers only for a finished run
C30_JobLifecycle ==
    /\ [][\A job_id \in DOMAIN processing_jobs : JobMoves(job_id)]_vars
    /\ [](\A job_id \in DOMAIN processing_jobs : NoPartialOutput(job_id))

\* one job is COMPLETED with its result, another FAILED part-way without one
C30_Witness ==
    \E done, failed \in DOMAIN processing_jobs :
        /\ processing_jobs[done].status = "COMPLETED"
        /\ DOMAIN GetJobResult(done) # {}
        /\ processing_jobs[failed].status = "FAILED"
        /\ processing_jobs[failed].progress > 5
        /\ DOMAIN processing_jobs[failed].result = {}

=============================================================================
